---- MODULE Spec2Model ----
(***************************************************************************)
(* A model of the terraria-wld world-file library (terraria-wld/src/lib.rs)*)
(* and of the callers in src/main.rs that drive it.  A file is a sequence   *)
(* of bytes (0..255); a session is the file, its cursor and the parsed      *)
(* Header.  Sequence indices are 1-based, file positions 0-based: the byte  *)
(* at position p is file[p + 1].                                            *)
(***************************************************************************)
EXTENDS Integers, Sequences, FiniteSets, TLC

VARIABLES
    file,     \* the bytes of the world file on disk
    cursor,   \* the position of the session's file handle (WorldFile.file)
    header,   \* the session's in-memory Header (WorldFile.header)
    chests,   \* the caller's Vec<Chest>
    nPlaced,  \* the number of place_in_chest calls made so far
    nWrites,  \* the number of write_chests calls made so far
    last,     \* what the last operation was, what it returned, what it started from
    codec,    \* the codec harness: an input, the bytes written for it, what was read back
    world,    \* what the file was made from (its sections as values), where a run keeps it
    got       \* what the last read operation returned

vars == <<file, cursor, header, chests, nPlaced, nWrites, last, codec, world, got>>

(***************************************************************************)
(* Bounds of the model.                                                    *)
(***************************************************************************)
MaxChests == 2      \* the longest chest list a caller passes to write_chests
MaxWrites == 2      \* write_chests calls on one session
MaxPlaced == 1      \* place_in_chest calls in one run of bless_chests
FailCuts == 2       \* how many prefixes of a read or write are tried as the point of an I/O failure
MaxRecords == 3     \* the most records in a tile stream
MaxRun == 2         \* the largest repeat count of a tile record
MaxNpcs == 2        \* the most NPCs in a file
MaxPrefix == 3      \* the most bytes in the length prefix of a string
MaxPaths == 3       \* the world files the viewer can open
MaxSegments == 3    \* the most segments in a line of a requirements file

(***************************************************************************)
(* Program constants.                                                      *)
(***************************************************************************)
ITEMS_PER_CHEST == 40
CHEST_MAX_ITEMS == 40
\* A variant of OFFSET_TABLE_OFFSET: the table rewritten one entry further on
OffsetTableMisplaced == 26 + 4
OFFSET_TABLE_OFFSET == 26
\* A variant of the table length read_offsets accepts: that of the older revision
OlderPointers == 11 - 1
N_POINTERS == 11
FILETYPE_WORLD == 2
STRING_LEN_LIMIT == 127

Byte == 0..255
\* A variant of the magic read_offsets compares with: b"Relogic"
MagicCapital == <<82, 101, 108, 111, 103, 105, 99>>
Magic == <<114, 101, 108, 111, 103, 105, 99>>   \* b"relogic"

(***************************************************************************)
(* Fixed-width little-endian integers (byteorder's LE).  \div and % are    *)
(* the floor division and modulus, so the bytes of a negative i32 are its  *)
(* two's complement.                                                       *)
(***************************************************************************)
LE16(n) == <<n % 256, (n \div 256) % 256>>

LE32(n) ==
    <<n % 256, (n \div 256) % 256, (n \div 65536) % 256, (n \div 16777216) % 256>>

LE64(n) == LE32(n) \o LE32(IF n < 0 THEN -1 ELSE 0)

Min(a, b) == IF a < b THEN a ELSE b
Max(a, b) == IF a < b THEN b ELSE a

\* Whether n bytes can be read at position p (read_exact fails with UnexpectedEof otherwise)
CanRead(f, p, n) == p >= 0 /\ p + n <= Len(f)

U8At(f, p) == f[p + 1]
U16At(f, p) == f[p + 1] + 256 * f[p + 2]
I16At(f, p) == LET u == U16At(f, p) IN IF u >= 32768 THEN u - 65536 ELSE u
I32At(f, p) ==
    LET hi == f[p + 4]
    IN  f[p + 1] + 256 * f[p + 2] + 65536 * f[p + 3]
          + 16777216 * (IF hi >= 128 THEN hi - 256 ELSE hi)

\* `as u16` of an i32
AsU16(n) == n % 65536

(***************************************************************************)
(* Bit operations on u8.                                                   *)
(***************************************************************************)
RECURSIVE Pow2(_)
Pow2(k) == IF k = 0 THEN 1 ELSE 2 * Pow2(k - 1)

BitSet(b, k) == (b \div Pow2(k)) % 2 = 1

RECURSIVE OrBits(_, _, _)
OrBits(a, b, k) ==
    IF k < 0 THEN 0
    ELSE (IF BitSet(a, k) \/ BitSet(b, k) THEN Pow2(k) ELSE 0) + OrBits(a, b, k - 1)

\* a | b for values below 2^16
BitOr(a, b) == OrBits(a, b, 15)

\* u8::wrapping_shl: the shift amount is taken modulo 8, the result keeps 8 bits
WrappingShlU8(b, shift) == (b * Pow2(shift % 8)) % 256

(***************************************************************************)
(* Values.  A String is modelled by its UTF-8 bytes; an Item and a Chest   *)
(* by records with the fields of the structs.                              *)
(***************************************************************************)
DefaultItem == [stack |-> 0, id |-> 0, prefix_id |-> 0]

MkItem(stack, id, prefix_id) == [stack |-> stack, id |-> id, prefix_id |-> prefix_id]

MkChest(x, y, name, items) == [x |-> x, y |-> y, name |-> name, items |-> items]

\* The result of a read that met the end of the file: read_exact has consumed what
\* was left, so the cursor is at the end of the file (or stays beyond it)
ReadFailed(f, p, val) == [ok |-> FALSE, val |-> val, pos |-> Max(p, Len(f))]

\* String::from_utf8_lossy, for byte strings over ASCII and 0xFF: an ASCII byte is
\* kept, a 0xFF byte (never part of well-formed UTF-8) becomes U+FFFD (EF BF BD).
\* (The loops over long sequences are evaluated by halves, to keep the depth of the
\* evaluation logarithmic; the result is that of the loop from left to right.)
RECURSIVE LossyRange(_, _, _)
LossyRange(buf, lo, hi) ==
    IF lo > hi THEN <<>>
    ELSE IF lo = hi THEN (IF buf[lo] < 128 THEN <<buf[lo]>> ELSE <<239, 191, 189>>)
    ELSE LossyRange(buf, lo, (lo + hi) \div 2) \o LossyRange(buf, (lo + hi) \div 2 + 1, hi)

FromUtf8Lossy(buf) == LossyRange(buf, 1, Len(buf))

RECURSIVE ReadStringLenLoop(_, _, _, _)
ReadStringLenLoop(f, p, len, shift) ==
    IF ~CanRead(f, p, 1) THEN ReadFailed(f, p, 0)
    ELSE LET segment == U8At(f, p)
             len2 == BitOr(len, WrappingShlU8(segment % 128, shift))
         IN  IF segment < 128
             THEN [ok |-> TRUE, val |-> len2, pos |-> p + 1]
             ELSE ReadStringLenLoop(f, p + 1, len2, shift + 7)

ReadStringLen(f, p) == ReadStringLenLoop(f, p, 0, 0)

\* read_string once its length prefix l has been read
ReadStringBody(f, l) ==
    IF ~l.ok THEN ReadFailed(f, l.pos, <<>>)
    ELSE IF ~CanRead(f, l.pos, l.val) THEN ReadFailed(f, Len(f), <<>>)
    ELSE [ok |-> TRUE,
          val |-> FromUtf8Lossy(SubSeq(f, l.pos + 1, l.pos + l.val)),
          pos |-> l.pos + l.val]

ReadString(f, p) == ReadStringBody(f, ReadStringLen(f, p))

\* write_string: [panic, bytes]; the assertion fails before any byte is written
WriteString(string) ==
    IF Len(string) < STRING_LEN_LIMIT
    THEN [panic |-> FALSE, bytes |-> <<Len(string)>> \o string]
    ELSE [panic |-> TRUE, bytes |-> <<>>]

\* A variant of Item::write that writes id and prefix_id whatever the stack
ItemWriteWhole(item) == LE16(item.stack) \o LE32(item.id) \o <<item.prefix_id>>

ItemWrite(item) ==
    LE16(item.stack)
      \o (IF item.stack # 0 THEN LE32(item.id) \o <<item.prefix_id>> ELSE <<>>)

\* A variant of Item::read that reads the prefix byte but does not keep it
ItemReadNoPrefix(f, p) ==
    IF ~CanRead(f, p, 2) THEN ReadFailed(f, p, DefaultItem)
    ELSE IF U16At(f, p) = 0 THEN [ok |-> TRUE, val |-> DefaultItem, pos |-> p + 2]
    ELSE IF ~CanRead(f, p + 2, 5) THEN ReadFailed(f, p + 2, DefaultItem)
    ELSE [ok |-> TRUE, val |-> MkItem(U16At(f, p), I32At(f, p + 2), 0), pos |-> p + 7]

ItemRead(f, p) ==
    IF ~CanRead(f, p, 2) THEN ReadFailed(f, p, DefaultItem)
    ELSE LET stack == U16At(f, p)
         IN  IF stack = 0 THEN [ok |-> TRUE, val |-> DefaultItem, pos |-> p + 2]
             ELSE IF ~CanRead(f, p + 2, 5) THEN ReadFailed(f, p + 2, DefaultItem)
             ELSE [ok |-> TRUE,
                   val |-> MkItem(stack, I32At(f, p + 2), U8At(f, p + 6)),
                   pos |-> p + 7]

\* The values of two consecutive parts of a read, the second part read from where
\* the first ended
Join(a, b) ==
    IF ~b.ok THEN b
    ELSE [ok |-> TRUE, val |-> a.val \o b.val, pos |-> b.pos]

\* One value as a list of one
One(r) == [ok |-> r.ok, val |-> <<r.val>>, pos |-> r.pos]

\* The loop of Chest::read over the item array: n more slots from position p
RECURSIVE ReadItems(_, _, _)
ReadItemsAfter(f, n, a) ==
    IF ~a.ok THEN a ELSE Join(a, ReadItems(f, a.pos, n))

ReadItems(f, p, n) ==
    IF n = 0 THEN [ok |-> TRUE, val |-> <<>>, pos |-> p]
    ELSE IF n = 1 THEN One(ItemRead(f, p))
    ELSE ReadItemsAfter(f, n - n \div 2, ReadItems(f, p, n \div 2))

\* Chest::read once the position and the name have been read
ChestReadItems(f, x, y, name, items) ==
    IF ~items.ok THEN ReadFailed(f, items.pos, <<>>)
    ELSE [ok |-> TRUE, val |-> MkChest(x, y, name.val, items.val), pos |-> items.pos]

ChestReadName(f, x, y, name) ==
    IF ~name.ok THEN ReadFailed(f, name.pos, <<>>)
    ELSE ChestReadItems(f, x, y, name, ReadItems(f, name.pos, CHEST_MAX_ITEMS))

ChestRead(f, p) ==
    IF ~CanRead(f, p, 8) THEN ReadFailed(f, p, <<>>)
    ELSE ChestReadName(f, AsU16(I32At(f, p)), AsU16(I32At(f, p + 4)), ReadString(f, p + 8))

\* The loop of Chest::write over the item array, slots lo..hi
RECURSIVE WriteItemsRange(_, _, _)
WriteItemsRange(items, lo, hi) ==
    IF lo > hi THEN <<>>
    ELSE IF lo = hi THEN ItemWrite(items[lo])
    ELSE WriteItemsRange(items, lo, (lo + hi) \div 2)
           \o WriteItemsRange(items, (lo + hi) \div 2 + 1, hi)

WriteItems(items) == WriteItemsRange(items, 1, Len(items))

\* A variant of Chest::write that writes y before x
ChestWriteNamedYX(chest, name) ==
    IF name.panic THEN [panic |-> TRUE, bytes |-> LE32(chest.y) \o LE32(chest.x)]
    ELSE [panic |-> FALSE,
          bytes |-> LE32(chest.y) \o LE32(chest.x) \o name.bytes \o WriteItems(chest.items)]

\* Chest::write: [panic, bytes], bytes being what reached the file
ChestWriteNamed(chest, name) ==
    IF name.panic THEN [panic |-> TRUE, bytes |-> LE32(chest.x) \o LE32(chest.y)]
    ELSE [panic |-> FALSE,
          bytes |-> LE32(chest.x) \o LE32(chest.y) \o name.bytes \o WriteItems(chest.items)]

ChestWrite(chest) == ChestWriteNamed(chest, WriteString(chest.name))

(***************************************************************************)
(* The Header (the parsed offset table and the frame-important bitmask).   *)
(***************************************************************************)
MkHeader(hd, tiles, chs, signs, npcs, entities, footer, u1, u2, u3, tfi) ==
    [header |-> hd, tiles |-> tiles, chests |-> chs, signs |-> signs, npcs |-> npcs,
     entities |-> entities, footer |-> footer,
     unused_1 |-> u1, unused_2 |-> u2, unused_3 |-> u3,
     tile_frame_important |-> tfi]

NoHeader == MkHeader(0, 0, 0, 0, 0, 0, 0, 0, 0, 0, <<>>)

\* Header::write: the ten offsets of the struct, in order
HeaderWrite(h) ==
    LE32(h.header) \o LE32(h.tiles) \o LE32(h.chests) \o LE32(h.signs) \o LE32(h.npcs)
      \o LE32(h.entities) \o LE32(h.footer)
      \o LE32(h.unused_1) \o LE32(h.unused_2) \o LE32(h.unused_3)

\* read_offsets, from position 0 of f: [ok, err, val, pos].  The reads are
\* sequential: version (4 bytes), magic (7), filetype (1), times_saved (4),
\* is_favorite (8), n_pointers (2), then the table.
ReadOffsets(f) ==
    LET Fail(err, p) == [ok |-> FALSE, err |-> err, val |-> NoHeader, pos |-> p]
        magic == 4
        filetype == magic + 7
        times_saved == filetype + 1
        n_pointers == times_saved + 4 + 8
        t == n_pointers + 2
        n_tfi == t + 4 * N_POINTERS
        tfi == n_tfi + 2
    IN  IF ~CanRead(f, 0, filetype) THEN Fail("io", Len(f))
        ELSE IF SubSeq(f, magic + 1, magic + 7) # Magic THEN Fail("format", filetype)
        ELSE IF ~CanRead(f, filetype, 1) THEN Fail("io", Len(f))
        ELSE IF U8At(f, filetype) # FILETYPE_WORLD THEN Fail("format", times_saved)
        ELSE IF ~CanRead(f, times_saved, 14) THEN Fail("io", Len(f))
        ELSE IF I16At(f, n_pointers) # N_POINTERS THEN Fail("format", t)
        ELSE IF ~CanRead(f, t, 4 * N_POINTERS + 2) THEN Fail("io", Len(f))
        ELSE IF I16At(f, n_tfi) < 0 \/ ~CanRead(f, tfi, I16At(f, n_tfi))
        THEN Fail("io", Len(f))
        ELSE [ok |-> TRUE, err |-> "none",
              val |-> MkHeader(I32At(f, t), I32At(f, t + 4), I32At(f, t + 8),
                               I32At(f, t + 12), I32At(f, t + 16), I32At(f, t + 20),
                               I32At(f, t + 24), I32At(f, t + 28), I32At(f, t + 32),
                               I32At(f, t + 36),
                               SubSeq(f, tfi + 1, tfi + I16At(f, n_tfi))),
              pos |-> tfi + I16At(f, n_tfi)]

(***************************************************************************)
(* The file handle: write_all at a position overwrites in place and        *)
(* extends the file when it runs past the end; it never shortens the file. *)
(***************************************************************************)
Zeros(n) == [i \in 1..n |-> 0]

WriteAt(f, p, bytes) ==
    LET g == IF p > Len(f) THEN f \o Zeros(p - Len(f)) ELSE f
    IN  IF bytes = <<>> THEN f
        ELSE SubSeq(g, 1, p) \o bytes \o SubSeq(g, p + Len(bytes) + 1, Len(g))

\* A variant of read_to_end that loses the first byte it reads
ReadToEndSkipping(f, p) == IF p + 1 >= Len(f) THEN <<>> ELSE SubSeq(f, p + 2, Len(f))

\* read_to_end from position p
ReadToEnd(f, p) == IF p >= Len(f) THEN <<>> ELSE SubSeq(f, p + 1, Len(f))

(***************************************************************************)
(* read_chests                                                             *)
(***************************************************************************)
\* for _ in 0..n_chests { chests.push(Chest::read(f)?) }
RECURSIVE ReadChestRecords(_, _, _)
ReadChestRecordsAfter(f, n, c) ==
    IF ~c.ok THEN c ELSE Join(c, ReadChestRecords(f, c.pos, n))

ReadChestRecords(f, p, n) ==
    IF n <= 0 THEN [ok |-> TRUE, val |-> <<>>, pos |-> p]
    ELSE ReadChestRecordsAfter(f, n - 1, One(ChestRead(f, p)))

\* What read_chests returns when its loop returned r
ReadChestsResult(r) ==
    IF ~r.ok THEN [ok |-> FALSE, err |-> "io", val |-> <<>>, pos |-> r.pos]
    ELSE [ok |-> TRUE, err |-> "none", val |-> r.val, pos |-> r.pos]

\* A variant of read_chests that does not look at the items-per-chest value
ReadChestsFromUnchecked(f, p) ==
    IF ~CanRead(f, p, 4)
    THEN [ok |-> FALSE, err |-> "io", val |-> <<>>, pos |-> Max(p, Len(f))]
    ELSE ReadChestsResult(ReadChestRecords(f, p + 4, I16At(f, p)))

\* read_chests once the cursor is at p: [ok, err, val, pos]
ReadChestsFrom(f, p) ==
    LET Fail(err, q) == [ok |-> FALSE, err |-> err, val |-> <<>>, pos |-> q]
    IN  IF ~CanRead(f, p, 4) THEN Fail("io", Max(p, Len(f)))
        ELSE IF I16At(f, p + 2) # ITEMS_PER_CHEST THEN Fail("format", p + 4)
        ELSE ReadChestsResult(ReadChestRecords(f, p + 4, I16At(f, p)))

\* WorldFile::read_chests on file f with Header h: [ok, err, val, pos]
ReadChests(f, h) ==
    IF h.chests < 0 THEN [ok |-> FALSE, err |-> "io", val |-> <<>>, pos |-> 0]
    ELSE ReadChestsFrom(f, h.chests)

(***************************************************************************)
(* write_chests                                                            *)
(***************************************************************************)
\* bytes written before what a later part of a write returned
After(bytes, rest) == [panic |-> rest.panic, bytes |-> bytes \o rest.bytes]

\* for chest in chests { chest.write(f)? }: [panic, bytes]
RECURSIVE WriteChestRecords(_)
WriteChestRecordsFrom(cs, c) ==
    IF c.panic THEN c ELSE After(c.bytes, WriteChestRecords(Tail(cs)))

WriteChestRecords(cs) ==
    IF cs = <<>> THEN [panic |-> FALSE, bytes |-> <<>>]
    ELSE WriteChestRecordsFrom(cs, ChestWrite(Head(cs)))

\* WorldFile::write_chests_inner: [panic, bytes]
WriteChestsInner(cs) ==
    After(LE16(Len(cs)) \o LE16(ITEMS_PER_CHEST), WriteChestRecords(cs))

\* A variant of the shift that leaves the signs offset where it was
ShiftOffsetsKeepingSigns(h, offs_diff) ==
    [h EXCEPT !.npcs = @ + offs_diff,
              !.entities = @ + offs_diff, !.footer = @ + offs_diff,
              !.unused_1 = @ + offs_diff, !.unused_2 = @ + offs_diff,
              !.unused_3 = @ + offs_diff]

\* The offsets write_chests moves by offs_diff
ShiftOffsets(h, offs_diff) ==
    [h EXCEPT !.signs = @ + offs_diff, !.npcs = @ + offs_diff,
              !.entities = @ + offs_diff, !.footer = @ + offs_diff,
              !.unused_1 = @ + offs_diff, !.unused_2 = @ + offs_diff,
              !.unused_3 = @ + offs_diff]

(***************************************************************************)
(* An I/O failure is an input of write_chests: the step that fails and,    *)
(* for a read or a write, how much of its data went through before it      *)
(* failed (cut of FailCuts parts).                                         *)
(***************************************************************************)
SeekSteps == {"seek_signs", "seek_chests", "tell", "seek_table"}
DataSteps == {"read_tail", "write_inner", "write_tail", "write_table"}

NoFailure == [step |-> "none", cut |-> 0]

Failures ==
    {NoFailure}
      \cup {[step |-> st, cut |-> 0] : st \in SeekSteps}
      \cup {[step |-> st, cut |-> c] : st \in DataSteps, c \in 0..(FailCuts - 1)}

\* The number of bytes of data that went through before the failure
CutLen(data, fail) == (Len(data) * fail.cut) \div FailCuts

\* What write_chests returns: the session as it is left, the result, and the
\* position of the end of the chest section as far as it got
Done(f, c, h, res, ns) ==
    [file |-> f, cursor |-> c, header |-> h, result |-> res, new_signs |-> ns]

\* A variant of the first steps of write_chests that cuts the file at the chest
\* section before it has read what follows
SaveRestFailedTruncated(s, fail, rest_buf) ==
    IF fail.step = "seek_signs" THEN
        Done(s.file, s.cursor, s.header, "io", s.header.signs)
    ELSE IF fail.step = "read_tail" THEN
        Done(SubSeq(s.file, 1, Min(s.header.chests, Len(s.file))),
             s.header.signs + CutLen(rest_buf, fail), s.header, "io", s.header.signs)
    ELSE
        Done(SubSeq(s.file, 1, Min(s.header.chests, Len(s.file))),
             Max(s.header.signs, Len(s.file)), s.header, "io", s.header.signs)

\* write_chests failing before its first write (lines 123-126): in the seek to
\* signs, in read_to_end, or in the seek to chests
SaveRestFailed(s, fail, rest_buf) ==
    IF fail.step = "seek_signs" THEN
        Done(s.file, s.cursor, s.header, "io", s.header.signs)
    ELSE IF fail.step = "read_tail" THEN
        Done(s.file, s.header.signs + CutLen(rest_buf, fail), s.header, "io",
             s.header.signs)
    ELSE
        Done(s.file, Max(s.header.signs, Len(s.file)), s.header, "io", s.header.signs)

\* write_chests from its first write on (lines 127-141), rest_buf having been
\* read, with inner what write_chests_inner writes
WriteBack(s, fail, rest_buf, inner) ==
    LET signs == s.header.signs
        at == s.header.chests
        new_signs_offset == at + Len(inner.bytes)
        f1 == WriteAt(s.file, at, inner.bytes)
        f2 == WriteAt(f1, new_signs_offset, rest_buf)
        offs_diff == new_signs_offset - signs
        h2 == ShiftOffsets(s.header, offs_diff)
    IN  IF fail.step = "write_inner" THEN
            Done(WriteAt(s.file, at, SubSeq(inner.bytes, 1, CutLen(inner.bytes, fail))),
                 at + CutLen(inner.bytes, fail), s.header, "io", signs)
        ELSE IF inner.panic THEN
            Done(f1, new_signs_offset, s.header, "panic", signs)
        ELSE IF fail.step = "tell" THEN
            Done(f1, new_signs_offset, s.header, "io", signs)
        ELSE IF fail.step = "write_tail" THEN
            Done(WriteAt(f1, new_signs_offset, SubSeq(rest_buf, 1, CutLen(rest_buf, fail))),
                 new_signs_offset + CutLen(rest_buf, fail), s.header, "io", signs)
        ELSE IF fail.step = "seek_table" THEN
            Done(f2, new_signs_offset + Len(rest_buf), s.header, "io", signs)
        ELSE IF fail.step = "write_table" THEN
            Done(WriteAt(f2, OFFSET_TABLE_OFFSET,
                         SubSeq(HeaderWrite(h2), 1, CutLen(HeaderWrite(h2), fail))),
                 OFFSET_TABLE_OFFSET + CutLen(HeaderWrite(h2), fail), h2, "io",
                 new_signs_offset)
        ELSE
            Done(WriteAt(f2, OFFSET_TABLE_OFFSET, HeaderWrite(h2)),
                 OFFSET_TABLE_OFFSET + Len(HeaderWrite(h2)), h2, "ok", new_signs_offset)

WriteChestsFrom(s, fail, rest_buf, inner) ==
    IF fail.step \in {"seek_signs", "read_tail", "seek_chests"}
    THEN SaveRestFailed(s, fail, rest_buf)
    ELSE WriteBack(s, fail, rest_buf, inner)

\* WorldFile::write_chests on session s = [file, cursor, header] with the chest list
\* cs, failing as fail says
WriteChests(s, cs, fail) ==
    WriteChestsFrom(s, fail, ReadToEnd(s.file, s.header.signs), WriteChestsInner(cs))

(***************************************************************************)
(* place_in_chest (src/main.rs): the first empty slot of the chest takes   *)
(* the item; a chest without an empty slot is left as it is.  rolled is    *)
(* what rng.gen_range(min_stack, max_stack) returned.                      *)
(***************************************************************************)
EmptySlots(chest) == {i \in 1..Len(chest.items) : chest.items[i].stack = 0}

FirstEmptySlot(chest) ==
    IF EmptySlots(chest) = {} THEN 0
    ELSE CHOOSE i \in EmptySlots(chest) : \A j \in EmptySlots(chest) : i <= j

PlaceInChest(chest, id, prefix, min_stack, max_stack, rolled) ==
    LET slot == FirstEmptySlot(chest)
        stack == IF min_stack = 1 /\ max_stack = 1 THEN 1 ELSE rolled
    IN  IF slot = 0 THEN chest
        ELSE [chest EXCEPT !.items[slot] = MkItem(stack, id, prefix)]

(***************************************************************************)
(* Inputs: the chests callers put in their lists, the requests of          *)
(* bless_chests, and the world files the sessions are opened on.           *)
(***************************************************************************)
EmptyItems == [i \in 1..CHEST_MAX_ITEMS |-> DefaultItem]

\* The chest of the example: at (100, 50), slot 0 holds {stack 5, id 857, prefix 0}
ChestA == MkChest(100, 50, <<>>, [EmptyItems EXCEPT ![1] = MkItem(5, 857, 0)])

\* An empty chest named "AB" at the largest column
ChestB == MkChest(65535, 9, <<65, 66>>, EmptyItems)

\* ChestA after place_in_chest rolled a stack of 0 for item 3: slot 1 is still
\* empty (stack 0) but carries the id
ChestG == MkChest(100, 50, <<>>, [EmptyItems EXCEPT ![1] = MkItem(5, 857, 0),
                                                    ![2] = MkItem(0, 3, 0)])

ChestPool == <<ChestA, ChestB, ChestG>>

\* The lists of up to MaxChests chests that run through the pool in order from
\* some chest on
ChestLists ==
    {[i \in 1..n |-> ChestPool[((start + i - 2) % Len(ChestPool)) + 1]] :
        n \in 0..MaxChests, start \in 1..Len(ChestPool)}

\* What a requirement line gives place_in_chest: "Item: 10-11", "Item: 0-1" and
\* "*Prefix Item" (defaults 1, 1)
PlaceRequests ==
    {[id |-> 3, prefix |-> 0, min_stack |-> 10, max_stack |-> 11],
     [id |-> 3, prefix |-> 0, min_stack |-> 0, max_stack |-> 1],
     [id |-> 9, prefix |-> 81, min_stack |-> 1, max_stack |-> 1]}

\* The values rng.gen_range(min, max) can return: min <= v < max
Rolls(req) ==
    IF req.min_stack = 1 /\ req.max_stack = 1 THEN {1}
    ELSE req.min_stack..(req.max_stack - 1)

\* The sections around the chest section, as opaque bytes
HeaderSection == <<72>>
TilesSection == <<84>>
SignsSection == <<161, 162>>
NpcsSection == <<0>>
EntitiesSection == <<193>>
FooterSection == <<209, 210>>
ReservedSections == <<225, 226, 227, 228>>   \* one byte for each of the table's last four entries
FrameImportant == <<0>>

\* The bytes of a world file before its offset table
BaseHeader ==
    LE32(230) \o Magic \o <<FILETYPE_WORLD>> \o LE32(1) \o LE64(0) \o LE16(N_POINTERS)

\* A well-formed world file holding the chest list cs.  live: the last four table
\* entries are offsets of sections after the footer; otherwise they are 0.
BuildFile(cs, live) ==
    LET hd == Len(BaseHeader) + 4 * N_POINTERS + 2 + Len(FrameImportant)
        tiles == hd + Len(HeaderSection)
        chs == tiles + Len(TilesSection)
        section == WriteChestsInner(cs).bytes
        signs == chs + Len(section)
        npcs == signs + Len(SignsSection)
        entities == npcs + Len(NpcsSection)
        footer == entities + Len(EntitiesSection)
        r == footer + Len(FooterSection)
        Res(k) == IF live THEN r + k ELSE 0
    IN  BaseHeader
          \o HeaderWrite(MkHeader(hd, tiles, chs, signs, npcs, entities, footer,
                                  Res(0), Res(1), Res(2), <<>>))
          \o LE32(Res(3))
          \o LE16(Len(FrameImportant)) \o FrameImportant
          \o HeaderSection \o TilesSection \o section
          \o SignsSection \o NpcsSection \o EntitiesSection \o FooterSection
          \o ReservedSections

InitLists == {<<ChestA>>}

InitFiles == {BuildFile(cs, live) : cs \in InitLists, live \in BOOLEAN}

(***************************************************************************)
(* The session state machine.                                              *)
(***************************************************************************)
NoOld == [file |-> <<>>, header |-> NoHeader]

MkLast(op, result, fail, old, fromRead, base, placed, new_signs) ==
    [op |-> op, result |-> result, fail |-> fail, old |-> old, fromRead |-> fromRead,
     base |-> base, placed |-> placed, new_signs |-> new_signs]

\* No record of what the file was made from; no read has returned
NoWorld == [kind |-> "none"]
NoResult == [op |-> "none"]

CodecIdle ==
    [stage |-> "idle", kind |-> "none", item |-> DefaultItem, chest |-> ChestB,
     panic |-> FALSE, bytes |-> <<>>, ok |-> FALSE, used |-> 0,
     ritem |-> DefaultItem, rchest |-> ChestB]

\* WorldFile::open(path, true) on one of the files
Init ==
    /\ file \in InitFiles
    /\ header = ReadOffsets(file).val
    /\ cursor = ReadOffsets(file).pos
    /\ chests = <<>>
    /\ nPlaced = 0
    /\ nWrites = 0
    /\ last = MkLast("open", "ok", NoFailure, NoOld, FALSE, <<>>, <<>>, 0)
    /\ codec = CodecIdle
    /\ world = NoWorld
    /\ got = NoResult

\* The run goes on only while no operation has returned an error
Alive == last.result = "ok"

\* WorldFile::open again on the file as it is now, read_offsets returning r
OpenStep(r) ==
    /\ header' = (IF r.ok THEN r.val ELSE header)
    /\ cursor' = r.pos
    /\ last' = MkLast("open", IF r.ok THEN "ok" ELSE r.err, NoFailure, NoOld,
                      FALSE, <<>>, <<>>, 0)
    /\ UNCHANGED <<file, chests, nPlaced, nWrites, codec, world, got>>

Open ==
    /\ Alive
    /\ last.op # "open"
    /\ OpenStep(ReadOffsets(file))

\* let mut chests = file.read_chests()?, read_chests returning r
ReadChestsStep(r) ==
    /\ chests' = (IF r.ok THEN r.val ELSE chests)
    /\ cursor' = (IF header.chests < 0 THEN cursor ELSE r.pos)
    /\ last' = MkLast("read_chests", IF r.ok THEN "ok" ELSE r.err, NoFailure, NoOld,
                      r.ok, r.val, <<>>, 0)
    /\ UNCHANGED <<file, header, nPlaced, nWrites, codec, world, got>>

DoReadChests ==
    /\ Alive
    /\ last.op # "read_chests"
    /\ ReadChestsStep(ReadChests(file, header))

\* place_in_chest(&mut chests[index], ...) on the list read_chests returned; c is
\* the chest afterwards, slot the slot that was filled (0: none)
PlaceStep(ci, slot, c) ==
    /\ chests' = [chests EXCEPT ![ci] = c]
    /\ last' = [last EXCEPT
                  !.op = "place_in_chest",
                  !.placed = IF slot = 0 THEN @
                             ELSE Append(@, [chest |-> ci, slot |-> slot,
                                             item |-> c.items[slot]])]
    /\ nPlaced' = nPlaced + 1
    /\ UNCHANGED <<file, cursor, header, nWrites, codec, world, got>>

DoPlaceInChest ==
    /\ Alive
    /\ last.op \in {"read_chests", "place_in_chest"}
    /\ nPlaced < MaxPlaced
    /\ \E ci \in 1..Len(chests), req \in PlaceRequests :
         \E rolled \in Rolls(req) :
           PlaceStep(ci, FirstEmptySlot(chests[ci]),
                     PlaceInChest(chests[ci], req.id, req.prefix,
                                  req.min_stack, req.max_stack, rolled))

\* file.write_chests(&cs)?, write_chests returning r
WriteChestsDone(cs, fail, fromRead, r) ==
    /\ file' = r.file
    /\ cursor' = r.cursor
    /\ header' = r.header
    /\ chests' = cs
    /\ nWrites' = nWrites + 1
    /\ last' = MkLast("write_chests", r.result, fail,
                      [file |-> file, header |-> header], fromRead,
                      IF fromRead THEN last.base ELSE <<>>,
                      IF fromRead THEN last.placed ELSE <<>>,
                      r.new_signs)
    /\ UNCHANGED <<nPlaced, codec, world, got>>

WriteChestsStep(cs, fail) ==
    WriteChestsDone(cs, fail, cs = chests /\ last.fromRead,
                    WriteChests([file |-> file, cursor |-> cursor, header |-> header],
                                cs, fail))

\* A caller of the library writes a list of its own making
DoWriteChests ==
    /\ Alive
    /\ nWrites < MaxWrites
    /\ \E cs \in ChestLists, fail \in Failures : WriteChestsStep(cs, fail)

Next == Open \/ DoReadChests \/ DoWriteChests

Spec == Init /\ [][Next]_vars

(***************************************************************************)
(* bless_chests (src/main.rs): open, read_chests, place_in_chest for every *)
(* stack of every requirement, write_chests of the list, once.             *)
(***************************************************************************)
BlessFiles == {BuildFile(cs, live) : cs \in ChestLists \ {<<>>}, live \in BOOLEAN}

BlessInit ==
    /\ file \in BlessFiles
    /\ header = ReadOffsets(file).val
    /\ cursor = ReadOffsets(file).pos
    /\ chests = <<>>
    /\ nPlaced = 0
    /\ nWrites = 0
    /\ last = MkLast("open", "ok", NoFailure, NoOld, FALSE, <<>>, <<>>, 0)
    /\ codec = CodecIdle
    /\ world = NoWorld
    /\ got = NoResult

BlessRead == nWrites = 0 /\ DoReadChests

BlessPlace == nWrites = 0 /\ DoPlaceInChest

BlessWrite ==
    /\ Alive
    /\ nWrites = 0
    /\ last.op \in {"read_chests", "place_in_chest"}
    /\ \E fail \in Failures : WriteChestsStep(chests, fail)

BlessNext == BlessRead \/ BlessPlace \/ BlessWrite

BlessSpec == BlessInit /\ [][BlessNext]_vars

(***************************************************************************)
(* The codec harness: Item::write / Item::read and Chest::write /          *)
(* Chest::read applied to inputs drawn from bounded sets.  What was        *)
(* written is read back from a buffer that holds other bytes before and    *)
(* after it.                                                               *)
(***************************************************************************)
CodecItems ==
    {MkItem(st, id, pf) : st \in {0, 1, 256, 65535},
                          id \in {0, 3, 857, -1, 2147483647},
                          pf \in {0, 81, 255}}

\* Every slot filled, with different stacks, ids and prefixes
ChestFull ==
    MkChest(1, 65535, <<67>>,
            [i \in 1..CHEST_MAX_ITEMS |-> MkItem(i, 1000 * i - 7, (6 * i) % 256)])

\* Only the last slot filled
ChestLast == MkChest(0, 0, <<>>, [EmptyItems EXCEPT ![CHEST_MAX_ITEMS] = MkItem(999, -2, 255)])

\* Names of the longest length write_string takes, and of the first it refuses
ChestLongName == MkChest(4, 5, [i \in 1..(STRING_LEN_LIMIT - 1) |-> 97 + (i % 26)], EmptyItems)
ChestTooLongName == MkChest(4, 5, [i \in 1..STRING_LEN_LIMIT |-> 97 + (i % 26)], EmptyItems)

CodecChests ==
    {ChestA, ChestB, ChestG, ChestFull, ChestLast, ChestLongName, ChestTooLongName}

Padding == <<170, 187>>

CodecInput(kind, item, chest) ==
    [CodecIdle EXCEPT !.stage = "input", !.kind = kind, !.item = item, !.chest = chest]

CodecInit ==
    /\ file = <<>>
    /\ cursor = 0
    /\ header = NoHeader
    /\ chests = <<>>
    /\ nPlaced = 0
    /\ nWrites = 0
    /\ last = MkLast("none", "ok", NoFailure, NoOld, FALSE, <<>>, <<>>, 0)
    /\ world = NoWorld
    /\ got = NoResult
    /\ codec \in {CodecInput("item", it, ChestB) : it \in CodecItems}
                   \cup {CodecInput("chest", DefaultItem, c) : c \in CodecChests}

CodecUnchanged ==
    UNCHANGED <<file, cursor, header, chests, nPlaced, nWrites, last, world, got>>

CodecWriteItem ==
    /\ codec.stage = "input" /\ codec.kind = "item"
    /\ codec' = [codec EXCEPT !.stage = "written", !.bytes = ItemWrite(codec.item)]
    /\ CodecUnchanged

\* r: what Item::read returned, reading at the end of the first padding
CodecItemRead(r) ==
    codec' = [codec EXCEPT !.stage = "read", !.ok = r.ok, !.ritem = r.val,
                           !.used = r.pos - Len(Padding)]

CodecReadItem ==
    /\ codec.stage = "written" /\ codec.kind = "item"
    /\ CodecItemRead(ItemRead(Padding \o codec.bytes \o Padding, Len(Padding)))
    /\ CodecUnchanged

\* w: what Chest::write returned
CodecChestWritten(w) ==
    codec' = [codec EXCEPT !.stage = "written", !.bytes = w.bytes, !.panic = w.panic]

CodecWriteChest ==
    /\ codec.stage = "input" /\ codec.kind = "chest"
    /\ CodecChestWritten(ChestWrite(codec.chest))
    /\ CodecUnchanged

\* r: what Chest::read returned, reading at the end of the first padding
CodecChestRead(r) ==
    codec' = [codec EXCEPT !.stage = "read", !.ok = r.ok,
                           !.rchest = IF r.ok THEN r.val ELSE @,
                           !.used = r.pos - Len(Padding)]

CodecReadChest ==
    /\ codec.stage = "written" /\ codec.kind = "chest" /\ ~codec.panic
    /\ CodecChestRead(ChestRead(Padding \o codec.bytes \o Padding, Len(Padding)))
    /\ CodecUnchanged

CodecNext == CodecWriteItem \/ CodecReadItem \/ CodecWriteChest \/ CodecReadChest

CodecSpec == CodecInit /\ [][CodecNext]_vars

(***************************************************************************)
(* The tile stream (read_tiles) and the chest types taken from it          *)
(* (load_chest_types).                                                     *)
(***************************************************************************)
\* bsa: bit idx of the byte is set
Bsa(byte, idx) == BitSet(byte, idx)

\* bit_index, for an idx inside the bytes (outside them the slice index panics)
BitIndex(bytes, idx) == Bsa(bytes[(idx \div 8) + 1], idx % 8)

NoFrame == [some |-> FALSE, x |-> 0, y |-> 0]
SomeFrame(x, y) == [some |-> TRUE, x |-> x, y |-> y]

\* The byte at position q, for the reads of a record; where the file has ended the
\* record's read fails, whatever is taken for the byte
ByteAt(f, q) == IF q < Len(f) THEN f[q + 1] ELSE 0

\* `as i16` of the two bytes at q
FrameAt(f, q) ==
    LET u == ByteAt(f, q) + 256 * ByteAt(f, q + 1)
    IN  IF u >= 32768 THEN u - 65536 ELSE u

\* One turn of the loop of read_tiles with the cursor at p:
\* [result, called, id, frame, rle, pos].  result is "ok", "io" (a read met the
\* end of the file) or "panic" (the tile id is outside tile_frame_important);
\* called says whether tile_callback was invoked before the turn ended.
ReadTileRecord(f, p, tile_frame_important) ==
    LET flags1 == ByteAt(f, p)
        flags2_present == Bsa(flags1, 0)
        not_air == Bsa(flags1, 1)
        has_wall == Bsa(flags1, 2)
        liquid == Bsa(flags1, 3) \/ Bsa(flags1, 4)
        long_type_id == Bsa(flags1, 5)
        rle_on == Bsa(flags1, 6)
        rle_on_long == Bsa(flags1, 7)
        p2 == p + 1
        flags3_present == flags2_present /\ Bsa(ByteAt(f, p2), 0)
        p3 == p2 + (IF flags2_present THEN 1 ELSE 0)
        tile_painted == flags3_present /\ Bsa(ByteAt(f, p3), 3)
        wall_painted == flags3_present /\ Bsa(ByteAt(f, p3), 4)
        pid == p3 + (IF flags3_present THEN 1 ELSE 0)
        tile_id == IF long_type_id THEN ByteAt(f, pid) + 256 * ByteAt(f, pid + 1)
                   ELSE ByteAt(f, pid)
        pfr == pid + (IF ~not_air THEN 0 ELSE IF long_type_id THEN 2 ELSE 1)
        in_mask == (tile_id \div 8) < Len(tile_frame_important)
        important == not_air /\ in_mask /\ BitIndex(tile_frame_important, tile_id)
        pcb == pfr + (IF important THEN 4 ELSE 0)
        ppaint == pcb + (IF tile_painted THEN 1 ELSE 0)
        pwall == ppaint + (IF ~has_wall THEN 0 ELSE IF wall_painted THEN 2 ELSE 1)
        pliq == pwall + (IF liquid THEN 1 ELSE 0)
        rle == IF rle_on_long THEN ByteAt(f, pliq) + 256 * ByteAt(f, pliq + 1)
               ELSE IF rle_on THEN ByteAt(f, pliq)
               ELSE 0
        pend == pliq + (IF rle_on_long THEN 2 ELSE IF rle_on THEN 1 ELSE 0)
        panics == not_air /\ pfr <= Len(f) /\ ~in_mask
    IN  [result |-> IF panics THEN "panic" ELSE IF pend > Len(f) THEN "io" ELSE "ok",
         called |-> not_air /\ in_mask /\ pcb <= Len(f),
         id |-> tile_id,
         frame |-> IF important THEN SomeFrame(FrameAt(f, pfr), FrameAt(f, pfr + 2))
                   ELSE NoFrame,
         rle |-> rle,
         pos |-> IF panics THEN pfr ELSE Min(pend, Len(f))]

\* What a pass has done so far: the turns of the loop (the index each started at
\* and its rle), the invocations of tile_callback (id, i, frame_offset), i and the
\* cursor
TilePass(result, turns, calls, i, pos) ==
    [result |-> result, turns |-> turns, calls |-> calls, i |-> i, pos |-> pos]

\* A variant of the turn that leaves out the `i += 1` at its end
TilePassAfterRunOnly(t, rec) ==
    TilePass(rec.result,
             IF rec.result = "ok" THEN Append(t.turns, [i |-> t.i, rle |-> rec.rle])
             ELSE t.turns,
             IF rec.called
             THEN Append(t.calls, [id |-> rec.id, i |-> t.i, frame |-> rec.frame])
             ELSE t.calls,
             IF rec.result = "ok" THEN t.i + rec.rle ELSE t.i,
             rec.pos)

\* The pass after one more turn, which read rec
TilePassAfter(t, rec) ==
    TilePass(rec.result,
             IF rec.result = "ok" THEN Append(t.turns, [i |-> t.i, rle |-> rec.rle])
             ELSE t.turns,
             IF rec.called
             THEN Append(t.calls, [id |-> rec.id, i |-> t.i, frame |-> rec.frame])
             ELSE t.calls,
             IF rec.result = "ok" THEN t.i + rec.rle + 1 ELSE t.i,
             rec.pos)

\* while i < len { ... }
RECURSIVE ReadTilesLoop(_, _, _, _)
ReadTilesLoop(f, len, tile_frame_important, t) ==
    IF t.result # "ok" \/ t.i >= len THEN t
    ELSE ReadTilesLoop(f, len, tile_frame_important,
                       TilePassAfter(t, ReadTileRecord(f, t.pos, tile_frame_important)))

\* read_tiles with the cursor at p
ReadTiles(f, p, w, h, tile_frame_important) ==
    ReadTilesLoop(f, w * h, tile_frame_important, TilePass("ok", <<>>, <<>>, 0, p))

\* ChestType: the variants without a value, UnknownChest(x) and UnknownDresser(x)
Variant(name) == [variant |-> name, x |-> 0]
UnknownChest(x) == [variant |-> "UnknownChest", x |-> x]
UnknownDresser(x) == [variant |-> "UnknownDresser", x |-> x]

\* ChestType::from_frame_x
FromFrameX(frame_x) ==
    CASE frame_x = 0 -> Variant("Plain")
      [] frame_x = 36 -> Variant("Gold")
      [] frame_x = 72 -> Variant("LockedGold")
      [] frame_x = 144 -> Variant("LockedShadow")
      [] frame_x = 288 -> Variant("RichMahogany")
      [] frame_x = 360 -> Variant("Ivy")
      [] frame_x = 396 -> Variant("Ice")
      [] frame_x = 468 -> Variant("Skyware")
      [] frame_x = 540 -> Variant("WebCovered")
      [] frame_x = 576 -> Variant("Lihzahrd")
      [] frame_x = 612 -> Variant("Water")
      [] frame_x = 828 -> Variant("LockedJungle")
      [] frame_x = 864 -> Variant("LockedCorruption")
      [] frame_x = 900 -> Variant("LockedCrimson")
      [] frame_x = 936 -> Variant("LockedHallowed")
      [] frame_x = 972 -> Variant("LockedFrozen")
      [] frame_x = 1152 -> Variant("Mushroom")
      [] frame_x = 1800 -> Variant("Granite")
      [] frame_x = 1836 -> Variant("Marble")
      [] OTHER -> UnknownChest(frame_x)

TILE_CHEST == 21
TILE_DRESSER == 88

\* HashMap::insert: the map as the set of its entries [x, y, type]
MapInsert(map, x, y, type) ==
    {e \in map : ~(e.x = x /\ e.y = y)} \cup {[x |-> x, y |-> y, type |-> type]}

\* A variant of the closure that attributes the cell i row by row
ChestTypeCallbackRowMajor(m, c, h) ==
    IF m.panic THEN m
    ELSE IF c.id = TILE_CHEST THEN
        IF ~c.frame.some THEN [panic |-> TRUE, map |-> m.map]
        ELSE IF c.frame.y = 0
        THEN [panic |-> FALSE,
              map |-> MapInsert(m.map, (c.i % h) % 65536, (c.i \div h) % 65536,
                                FromFrameX(c.frame.x))]
        ELSE m
    ELSE IF c.id = TILE_DRESSER THEN
        IF ~c.frame.some THEN [panic |-> TRUE, map |-> m.map]
        ELSE [panic |-> FALSE,
              map |-> MapInsert(m.map, (c.i % h) % 65536, (c.i \div h) % 65536,
                                UnknownDresser(c.frame.x))]
    ELSE m

\* The closure load_chest_types passes to read_tiles, invoked with call c:
\* [panic, map]; frame.unwrap() panics where the tile has no frame offset
ChestTypeCallback(m, c, h) ==
    IF m.panic THEN m
    ELSE IF c.id = TILE_CHEST THEN
        IF ~c.frame.some THEN [panic |-> TRUE, map |-> m.map]
        ELSE IF c.frame.y = 0
        THEN [panic |-> FALSE,
              map |-> MapInsert(m.map, (c.i \div h) % 65536, (c.i % h) % 65536,
                                FromFrameX(c.frame.x))]
        ELSE m
    ELSE IF c.id = TILE_DRESSER THEN
        IF ~c.frame.some THEN [panic |-> TRUE, map |-> m.map]
        ELSE [panic |-> FALSE,
              map |-> MapInsert(m.map, (c.i \div h) % 65536, (c.i % h) % 65536,
                                UnknownDresser(c.frame.x))]
    ELSE m

\* The closure invoked with the calls of a pass from the k-th on
RECURSIVE ChestTypeCalls(_, _, _, _)
ChestTypeCalls(calls, k, h, m) ==
    IF k > Len(calls) THEN m
    ELSE ChestTypeCalls(calls, k + 1, h, ChestTypeCallback(m, calls[k], h))

\* What load_chest_types returns for the pass t and the map m its closure built
ChestTypesResult(t, m) ==
    [result |-> IF m.panic THEN "panic" ELSE t.result,
     map |-> IF ~m.panic /\ t.result = "ok" THEN m.map ELSE {},
     pos |-> t.pos]

ChestTypesOfPass(t, h) ==
    ChestTypesResult(t, ChestTypeCalls(t.calls, 1, h, [panic |-> FALSE, map |-> {}]))

\* load_chest_types with the cursor at p: [result, map, pos]
LoadChestTypes(f, p, w, h, tile_frame_important) ==
    ChestTypesOfPass(ReadTiles(f, p, w, h, tile_frame_important), h)

(***************************************************************************)
(* NPC records.  An f32 is modelled by its four bytes as stored.           *)
(***************************************************************************)
MkNpc(sprite, name, x, y, homeless, home_x, home_y) ==
    [sprite |-> sprite, name |-> name, x |-> x, y |-> y, homeless |-> homeless,
     home_x |-> home_x, home_y |-> home_y]

NoNpc == MkNpc(0, <<>>, <<0, 0, 0, 0>>, <<0, 0, 0, 0>>, FALSE, 0, 0)

\* The result of read_npc: ok is FALSE for an I/O error; some is FALSE for None
NpcResult(ok, some, val, pos) == [ok |-> ok, some |-> some, val |-> val, pos |-> pos]

NpcReadFailed(f, p) == NpcResult(FALSE, FALSE, NoNpc, Max(p, Len(f)))

\* read_npc once the name has been read
ReadNpcNamed(f, sprite, name) ==
    IF ~name.ok THEN NpcReadFailed(f, name.pos)
    ELSE IF ~CanRead(f, name.pos, 17) THEN NpcReadFailed(f, name.pos)
    ELSE LET q == name.pos
         IN  NpcResult(TRUE, TRUE,
                       MkNpc(sprite, name.val, SubSeq(f, q + 1, q + 4),
                             SubSeq(f, q + 5, q + 8), U8At(f, q + 8) # 0,
                             I32At(f, q + 9), I32At(f, q + 13)),
                       q + 17)

\* A variant of read_npc that takes only the byte 1 for an active flag
ReadNpcActiveOne(f, p) ==
    IF ~CanRead(f, p, 1) THEN NpcReadFailed(f, p)
    ELSE IF U8At(f, p) # 1 THEN NpcResult(TRUE, FALSE, NoNpc, p + 1)
    ELSE IF ~CanRead(f, p + 1, 4) THEN NpcReadFailed(f, p + 1)
    ELSE ReadNpcNamed(f, I32At(f, p + 1), ReadString(f, p + 5))

\* read_npc with the cursor at p
ReadNpc(f, p) ==
    IF ~CanRead(f, p, 1) THEN NpcReadFailed(f, p)
    ELSE IF U8At(f, p) = 0 THEN NpcResult(TRUE, FALSE, NoNpc, p + 1)
    ELSE IF ~CanRead(f, p + 1, 4) THEN NpcReadFailed(f, p + 1)
    ELSE ReadNpcNamed(f, I32At(f, p + 1), ReadString(f, p + 5))

\* while let Some(npc) = read_npc(&mut self.file)? { npcs.push(npc); }
RECURSIVE ReadNpcLoop(_, _, _)
ReadNpcLoopAfter(f, npcs, r) ==
    IF ~r.ok THEN [ok |-> FALSE, err |-> "io", val |-> <<>>, pos |-> r.pos]
    ELSE IF ~r.some THEN [ok |-> TRUE, err |-> "none", val |-> npcs, pos |-> r.pos]
    ELSE ReadNpcLoop(f, Append(npcs, r.val), r.pos)

ReadNpcLoop(f, npcs, p) == ReadNpcLoopAfter(f, npcs, ReadNpc(f, p))

\* A variant of the seek that leaves the cursor where it is
SeekNowhere(c, pos) == c

\* f.seek(SeekFrom::Start(pos)): where the cursor is afterwards
SeekStart(c, pos) == pos

\* WorldFile::read_npcs with the cursor at c: [ok, err, val, pos]
ReadNpcs(f, h, c) ==
    IF h.npcs < 0 THEN [ok |-> FALSE, err |-> "io", val |-> <<>>, pos |-> c]
    ELSE ReadNpcLoop(f, <<>>, SeekStart(c, h.npcs))

\* A variant of write_npc that writes home_y before home_x
WriteNpcNamedHomeYX(npc, name) ==
    IF name.panic THEN [panic |-> TRUE, bytes |-> <<1>> \o LE32(npc.sprite)]
    ELSE [panic |-> FALSE,
          bytes |-> <<1>> \o LE32(npc.sprite) \o name.bytes \o npc.x \o npc.y
                      \o <<IF npc.homeless THEN 1 ELSE 0>>
                      \o LE32(npc.home_y) \o LE32(npc.home_x)]

\* write_npc: [panic, bytes], bytes being what reached the file
WriteNpcNamed(npc, name) ==
    IF name.panic THEN [panic |-> TRUE, bytes |-> <<1>> \o LE32(npc.sprite)]
    ELSE [panic |-> FALSE,
          bytes |-> <<1>> \o LE32(npc.sprite) \o name.bytes \o npc.x \o npc.y
                      \o <<IF npc.homeless THEN 1 ELSE 0>>
                      \o LE32(npc.home_x) \o LE32(npc.home_y)]

WriteNpc(npc) == WriteNpcNamed(npc, WriteString(npc.name))

\* for npc in npcs { write_npc(f, npc)?; }: [panic, bytes]
RECURSIVE WriteNpcRecords(_)
WriteNpcRecordsFrom(npcs, w) ==
    IF w.panic THEN w ELSE After(w.bytes, WriteNpcRecords(Tail(npcs)))

WriteNpcRecords(npcs) ==
    IF npcs = <<>> THEN [panic |-> FALSE, bytes |-> <<>>]
    ELSE WriteNpcRecordsFrom(npcs, WriteNpc(Head(npcs)))

\* WorldFile::write_npcs with the cursor at c: [result, file, pos]
WriteNpcsDone(f, p, w) ==
    [result |-> IF w.panic THEN "panic" ELSE "ok",
     file |-> WriteAt(f, p, w.bytes),
     pos |-> p + Len(w.bytes)]

WriteNpcs(f, h, c, npcs) ==
    IF h.npcs < 0 THEN [result |-> "io", file |-> f, pos |-> c]
    ELSE WriteNpcsDone(f, SeekStart(c, h.npcs), WriteNpcRecords(npcs))

(***************************************************************************)
(* The metadata section.  An f64 is modelled by its eight bytes as stored. *)
(***************************************************************************)
MkBasicInfo(height, width, surface_y, seed, spawn_x, spawn_y) ==
    [height |-> height, width |-> width, surface_y |-> surface_y, seed |-> seed,
     spawn_x |-> spawn_x, spawn_y |-> spawn_y]

NoBasicInfo == MkBasicInfo(0, 0, <<>>, <<>>, 0, 0)

\* read_basic_info once the two strings have been read: gen_version (8 bytes),
\* guid (16), id and the four bounds (20), height, width, expert (1),
\* creation_time (8), moon_type (1), seventeen styles (68), spawn_x, spawn_y,
\* surface_y (8)
ReadBasicInfoFixed(f, seed) ==
    IF ~seed.ok \/ ~CanRead(f, seed.pos, 146)
    THEN [ok |-> FALSE, err |-> "io", val |-> NoBasicInfo, pos |-> Max(seed.pos, Len(f))]
    ELSE LET q == seed.pos
         IN  [ok |-> TRUE, err |-> "none",
              val |-> MkBasicInfo(AsU16(I32At(f, q + 44)), AsU16(I32At(f, q + 48)),
                                  SubSeq(f, q + 139, q + 146), seed.val,
                                  I32At(f, q + 130), I32At(f, q + 134)),
              pos |-> q + 146]

ReadBasicInfoSeed(f, name) ==
    IF ~name.ok
    THEN [ok |-> FALSE, err |-> "io", val |-> NoBasicInfo, pos |-> name.pos]
    ELSE ReadBasicInfoFixed(f, ReadString(f, name.pos))

\* WorldFile::read_basic_info with the cursor at c: [ok, err, val, pos]
ReadBasicInfo(f, h, c) ==
    IF h.header < 0 THEN [ok |-> FALSE, err |-> "io", val |-> NoBasicInfo, pos |-> c]
    ELSE ReadBasicInfoSeed(f, ReadString(f, SeekStart(c, h.header)))

\* WorldFile::read_chest_types with the cursor at c: [result, map, pos]
ReadChestTypes(f, h, c, basic_info) ==
    IF h.tiles < 0 THEN [result |-> "io", map |-> {}, pos |-> c]
    ELSE LoadChestTypes(f, SeekStart(c, h.tiles), basic_info.width, basic_info.height,
                        h.tile_frame_important)

\* WorldFile::read_chests with the cursor at c
ReadChestsAt(f, h, c) ==
    IF h.chests < 0 THEN [ok |-> FALSE, err |-> "io", val |-> <<>>, pos |-> c]
    ELSE ReadChestsFrom(f, SeekStart(c, h.chests))

\* The tile pass of WorldFile::corruption_percent, with the cursor at c:
\* read_basic_info, then read_tiles from header.tiles
CorruptionPass(f, h, info) ==
    IF ~info.ok THEN TilePass(info.err, <<>>, <<>>, 0, info.pos)
    ELSE IF h.tiles < 0 THEN TilePass("io", <<>>, <<>>, 0, info.pos)
    ELSE ReadTiles(f, SeekStart(info.pos, h.tiles), info.val.width, info.val.height,
                   h.tile_frame_important)

CorruptionPercent(f, h, c) == CorruptionPass(f, h, ReadBasicInfo(f, h, c))

(***************************************************************************)
(* fix_npcs.                                                               *)
(***************************************************************************)
\* f32::is_nan of the four stored bytes: the exponent is all ones and the
\* mantissa is not zero
IsNan(b) ==
    /\ (b[4] % 128) * 2 + (b[3] \div 128) = 255
    /\ (b[3] % 128) + b[2] + b[1] # 0

\* floor(log2(a)) for a >= 1
RECURSIVE Log2(_)
Log2(a) == IF a < 2 THEN 0 ELSE 1 + Log2(a \div 2)

\* The bytes of the f32 `n as f32 * 16.` for an i32 n with |n| < 2^24, where the
\* conversion and the product are exact
TimesSixteenAsF32(n) ==
    IF n = 0 THEN <<0, 0, 0, 0>>
    ELSE LET a == IF n < 0 THEN -n ELSE n
             e == Log2(a)
             exponent == e + 4 + 127
             mantissa == (a - Pow2(e)) * Pow2(23 - e)
         IN  <<mantissa % 256, (mantissa \div 256) % 256,
               (exponent % 2) * 128 + (mantissa \div 65536),
               (IF n < 0 THEN 128 ELSE 0) + (exponent \div 2)>>

\* The body of the loop of fix_npcs for one npc
FixNpc(npc, basic_info) ==
    IF IsNan(npc.x) \/ IsNan(npc.y)
    THEN [npc EXCEPT !.x = TimesSixteenAsF32(basic_info.spawn_x),
                     !.y = TimesSixteenAsF32(basic_info.spawn_y)]
    ELSE npc

FixedNpcs(npcs, basic_info) == [k \in 1..Len(npcs) |-> FixNpc(npcs[k], basic_info)]

FixedAny(npcs) == \E k \in 1..Len(npcs) : IsNan(npcs[k].x) \/ IsNan(npcs[k].y)

\* The result of fix_npcs: what it read, what it handed to write_npcs (wrote says
\* whether it did), and the file and the cursor afterwards
FixResult(result, f, pos, read, npcs, wrote) ==
    [result |-> result, file |-> f, pos |-> pos, read |-> read, npcs |-> npcs,
     wrote |-> wrote]

FixNpcsWritten(read, npcs, w) ==
    FixResult(w.result, w.file, w.pos, read, npcs, TRUE)

FixNpcsFixed(f, h, read, npcs) ==
    IF ~FixedAny(read.val) THEN FixResult("ok", f, read.pos, read.val, npcs, FALSE)
    ELSE FixNpcsWritten(read.val, npcs, WriteNpcs(f, h, read.pos, npcs))

FixNpcsRead(f, h, info, read) ==
    IF ~read.ok THEN FixResult(read.err, f, read.pos, <<>>, <<>>, FALSE)
    ELSE FixNpcsFixed(f, h, read, FixedNpcs(read.val, info.val))

FixNpcsInfo(f, h, info) ==
    IF ~info.ok THEN FixResult(info.err, f, info.pos, <<>>, <<>>, FALSE)
    ELSE FixNpcsRead(f, h, info, ReadNpcs(f, h, info.pos))

\* fix_npcs on the file f, once WorldFile::open has returned the header h and left
\* the cursor at c
FixNpcs(f, h, c) == FixNpcsInfo(f, h, ReadBasicInfo(f, h, c))

(***************************************************************************)
(* Tile streams to read: the records they are written from, and the bytes  *)
(* of a record as read_tiles takes them apart.                             *)
(***************************************************************************)
\* The bitmask with the bits of ids set, n bytes long
RECURSIVE MaskByte(_, _, _)
MaskByte(ids, base, b) ==
    IF b > 7 THEN 0
    ELSE (IF base + b \in ids THEN Pow2(b) ELSE 0) + MaskByte(ids, base, b + 1)

MaskOf(ids, n) == [k \in 1..n |-> MaskByte(ids, 8 * (k - 1), 0)]

\* tile_frame_important of the files: 40 bytes (ids 0..319), with chests,
\* dressers and tile 300 recording a frame offset
FrameImportantIds == {TILE_CHEST, TILE_DRESSER, 300}
TileFrameImportant == MaskOf(FrameImportantIds, 40)

\* A tile record as it is stored.  front: the tile id, or -1 for air.
TileRecord(front, long_id, fx, fy, wall, liquid, tile_paint, wall_paint, flags2,
           long_rle) ==
    [front |-> front, long_id |-> long_id, fx |-> fx, fy |-> fy, wall |-> wall,
     liquid |-> liquid, tile_paint |-> tile_paint, wall_paint |-> wall_paint,
     flags2 |-> flags2, long_rle |-> long_rle, rle |-> 0]

Bit(b, k) == IF b THEN Pow2(k) ELSE 0

\* The bytes of the record rec, with repeat count rec.rle
EncodeTile(rec) ==
    LET flags3 == rec.tile_paint \/ rec.wall_paint
        flags2 == flags3 \/ rec.flags2
        not_air == rec.front >= 0
        rle_on == rec.rle > 0 /\ ~rec.long_rle
        important == not_air /\ rec.front \in FrameImportantIds
    IN  <<Bit(flags2, 0) + Bit(not_air, 1) + Bit(rec.wall, 2)
            + Bit(rec.liquid % 2 = 1, 3) + Bit(rec.liquid >= 2, 4)
            + Bit(rec.long_id, 5) + Bit(rle_on, 6) + Bit(rec.long_rle, 7)>>
          \o (IF flags2 THEN <<Bit(flags3, 0) + 128>> ELSE <<>>)
          \o (IF flags3 THEN <<Bit(rec.tile_paint, 3) + Bit(rec.wall_paint, 4) + 2>>
              ELSE <<>>)
          \o (IF ~not_air THEN <<>>
              ELSE IF rec.long_id THEN LE16(rec.front) ELSE <<rec.front>>)
          \o (IF important THEN LE16(rec.fx) \o LE16(rec.fy) ELSE <<>>)
          \o (IF rec.tile_paint THEN <<7>> ELSE <<>>)
          \o (IF rec.wall THEN <<4>> ELSE <<>>)
          \o (IF rec.wall /\ rec.wall_paint THEN <<9>> ELSE <<>>)
          \o (IF rec.liquid # 0 THEN <<255>> ELSE <<>>)
          \o (IF rec.long_rle THEN LE16(rec.rle)
              ELSE IF rle_on THEN <<rec.rle>> ELSE <<>>)

RECURSIVE EncodeTiles(_)
EncodeTiles(recs) ==
    IF recs = <<>> THEN <<>> ELSE EncodeTile(Head(recs)) \o EncodeTiles(Tail(recs))

\* The records streams are made of: air; dirt; a gold chest's top (frame 36, 0)
\* and its lower half (36, 18); the right half of a plain chest's top (18, 0); a
\* dresser; tile 300 with every optional field and a 16-bit repeat count; air with
\* a wall and lava; a plain chest with a 16-bit id; a locked shadow chest (144, 0)
TilePool ==
    <<TileRecord(-1, FALSE, 0, 0, FALSE, 0, FALSE, FALSE, FALSE, FALSE),
      TileRecord(TILE_CHEST, FALSE, 36, 0, FALSE, 0, FALSE, FALSE, FALSE, FALSE),
      TileRecord(1, FALSE, 0, 0, TRUE, 1, FALSE, FALSE, TRUE, FALSE),
      TileRecord(TILE_CHEST, FALSE, 36, 18, FALSE, 0, FALSE, FALSE, FALSE, FALSE),
      TileRecord(TILE_DRESSER, FALSE, 54, 18, TRUE, 0, FALSE, TRUE, FALSE, FALSE),
      TileRecord(TILE_CHEST, FALSE, 18, 0, FALSE, 0, TRUE, FALSE, FALSE, FALSE),
      TileRecord(300, TRUE, -2, 5, TRUE, 3, TRUE, TRUE, FALSE, TRUE),
      TileRecord(-1, FALSE, 0, 0, TRUE, 2, FALSE, FALSE, FALSE, FALSE),
      TileRecord(TILE_CHEST, TRUE, 0, 0, FALSE, 0, FALSE, FALSE, FALSE, TRUE),
      TileRecord(TILE_CHEST, FALSE, 144, 0, FALSE, 3, FALSE, FALSE, FALSE, FALSE),
      TileRecord(TILE_DRESSER, TRUE, 0, 0, FALSE, 0, FALSE, FALSE, TRUE, FALSE)>>

\* The streams: n records that run through the pool from some record on, the
\* k-th with repeat count (start + k) % (MaxRun + 1)
TileStreams ==
    {[k \in 1..n |->
        [TilePool[((start + k - 2) % Len(TilePool)) + 1]
            EXCEPT !.rle = (start + k) % (MaxRun + 1)]] :
        n \in 1..MaxRecords, start \in 1..Len(TilePool)}

\* The cells of a stream: the sum of rle + 1 over its records
RECURSIVE CellsOf(_)
CellsOf(recs) == IF recs = <<>> THEN 0 ELSE Head(recs).rle + 1 + CellsOf(Tail(recs))

\* A world of w columns and h rows with the stream recs
TileWorld(recs, w, h) == [kind |-> "tiles", records |-> recs, width |-> w, height |-> h]

(***************************************************************************)
(* World files to read: the sections are written from the values the       *)
(* reads are to return.                                                    *)
(***************************************************************************)
\* The length prefix of a stored string of n bytes (n < 16384)
StringLen(n) == IF n < 128 THEN <<n>> ELSE <<128 + (n % 128), n \div 128>>

StoredString(bytes) == StringLen(Len(bytes)) \o bytes

\* An NPC as it is stored: its active flag and homeless are bytes, its name any
\* byte string
StoredNpc(active, sprite, name, x, y, homeless, home_x, home_y) ==
    [active |-> active, sprite |-> sprite, name |-> name, x |-> x, y |-> y,
     homeless |-> homeless, home_x |-> home_x, home_y |-> home_y]

EncodeNpc(n) ==
    <<n.active>> \o LE32(n.sprite) \o StoredString(n.name) \o n.x \o n.y
      \o <<n.homeless>> \o LE32(n.home_x) \o LE32(n.home_y)

RECURSIVE EncodeNpcs(_)
EncodeNpcs(ns) == IF ns = <<>> THEN <<>> ELSE EncodeNpc(Head(ns)) \o EncodeNpcs(Tail(ns))

\* f32 values: 100.0, 8.5, a quiet NaN and a negative NaN with a payload
F32Hundred == <<0, 0, 200, 66>>
F32EightAndHalf == <<0, 0, 8, 65>>
F32NaN == <<0, 0, 192, 127>>
F32NaNPayload == <<1, 0, 128, 255>>

LongName == [k \in 1..STRING_LEN_LIMIT |-> 97 + (k % 26)]

\* The NPCs of the files: the guide; a nurse whose flag is 2, whose name is not
\* UTF-8 and whose x is NaN; a merchant whose flag is 255, unnamed, whose y is NaN;
\* a dryad whose name is 127 bytes long
NpcPool ==
    <<StoredNpc(1, 22, <<71, 117, 121>>, F32Hundred, F32EightAndHalf, 0, 10, 20),
      StoredNpc(2, 18, <<255, 65>>, F32NaN, F32Hundred, 1, -1, -1),
      StoredNpc(255, 17, <<>>, F32EightAndHalf, F32NaNPayload, 2, 300, 70000),
      StoredNpc(1, 20, LongName, F32Hundred, F32Hundred, 0, 5, 6)>>

NpcLists ==
    {[k \in 1..n |-> NpcPool[((start + k - 2) % Len(NpcPool)) + 1]] :
        n \in 0..MaxNpcs, start \in 1..Len(NpcPool)}

\* A world: what its sections are written from.  width and height are the i32
\* values stored; spawn is the spawn point.
World(seed, width, height, spawn_x, spawn_y, records, cs, npcs) ==
    [kind |-> "world", seed |-> seed, width |-> width, height |-> height,
     spawn_x |-> spawn_x, spawn_y |-> spawn_y, records |-> records, chests |-> cs,
     npcs |-> npcs]

SurfaceY == <<0, 0, 0, 0, 0, 192, 114, 64>>   \* 300.0

\* The metadata section of the world w
EncodeBasicInfo(w) ==
    StoredString(<<87, 255>>) \o StoredString(w.seed) \o LE64(3) \o [k \in 1..16 |-> 160 + k]
      \o LE32(7) \o LE32(0) \o LE32(16 * w.width) \o LE32(0) \o LE32(16 * w.height)
      \o LE32(w.height) \o LE32(w.width) \o <<1>> \o LE64(-5) \o <<4>>
      \o [k \in 1..68 |-> 100 + k]
      \o LE32(w.spawn_x) \o LE32(w.spawn_y) \o SurfaceY

\* The file of the world w
BuildWorld(w) ==
    LET hd == Len(BaseHeader) + 4 * N_POINTERS + 2 + Len(TileFrameImportant)
        info == EncodeBasicInfo(w)
        tiles == hd + Len(info)
        stream == EncodeTiles(w.records)
        chs == tiles + Len(stream)
        section == WriteChestsInner(w.chests).bytes
        signs == chs + Len(section)
        npcs == signs + Len(SignsSection)
        list == EncodeNpcs(w.npcs)
        entities == npcs + Len(list) + 1
        footer == entities + Len(EntitiesSection)
    IN  BaseHeader
          \o HeaderWrite(MkHeader(hd, tiles, chs, signs, npcs, entities, footer,
                                  0, 0, 0, <<>>))
          \o LE32(0)
          \o LE16(Len(TileFrameImportant)) \o TileFrameImportant
          \o info \o stream \o section \o SignsSection \o list \o <<0>>
          \o EntitiesSection \o FooterSection

Seed == <<49, 50, 51>>

\* Tile 400, which the 40 bytes of tile_frame_important do not cover
TileBeyondMask == TileRecord(400, TRUE, 0, 0, FALSE, 0, FALSE, FALSE, FALSE, FALSE)

\* The worlds: every stream in a grid of every height up to MaxRun + 1 (the grid
\* is short of the stream where the height does not divide its cells); every NPC
\* list and two chest lists, in a world that stores a width beyond the u16 range;
\* a world with a tile beyond the mask
Worlds ==
    {World(Seed, CellsOf(recs) \div h, h, 2, 3, recs, <<ChestA>>, <<NpcPool[1]>>) :
        recs \in TileStreams, h \in 1..(MaxRun + 1)}
      \cup {World(<<255>>, 65536 + 2, 1, -40, 4100, <<TilePool[1], TilePool[2]>>, cs, ns) :
              cs \in {<<>>, <<ChestB>>}, ns \in NpcLists}
      \cup {World(Seed, 2, 1, 0, 0, <<TilePool[2], TileBeyondMask>>, <<>>, <<>>)}

(***************************************************************************)
(* Sessions on these worlds: the read operations in any order, and one     *)
(* write of the NPC list.                                                  *)
(***************************************************************************)
\* What the caller holds of the session: the operation that ran last (op), what
\* it returned (res) and the BasicInfo the caller got from read_basic_info (info)
Got(op, res, info) == [op |-> op, res |-> res, info |-> info]

NoInfo == [ok |-> FALSE, err |-> "none", val |-> NoBasicInfo, pos |-> 0]

SessionOpened(w, f, r) ==
    /\ world = w
    /\ file = f
    /\ header = r.val
    /\ cursor = r.pos
    /\ chests = <<>>
    /\ nPlaced = 0
    /\ nWrites = 0
    /\ last = MkLast("open", "ok", NoFailure, NoOld, FALSE, <<>>, <<>>, 0)
    /\ codec = CodecIdle
    /\ got = Got("open", r, NoInfo)

SessionBuilt(w, f) == SessionOpened(w, f, ReadOffsets(f))

\* WorldFile::open on the file of one of the worlds
SessionInit == \E w \in Worlds : SessionBuilt(w, BuildWorld(w))

\* What every read leaves alone
ReadUnchanged == UNCHANGED <<file, header, chests, nPlaced, nWrites, last, codec, world>>

\* file.read_basic_info(), returning r
ReadBasicInfoStep(r) ==
    /\ cursor' = r.pos
    /\ got' = Got("read_basic_info", r, IF r.ok THEN r ELSE got.info)
    /\ ReadUnchanged

DoReadBasicInfo == ReadBasicInfoStep(ReadBasicInfo(file, header, cursor))

\* file.read_npcs(), returning r
ReadNpcsStep(r) ==
    /\ cursor' = r.pos
    /\ got' = Got("read_npcs", r, got.info)
    /\ ReadUnchanged

DoReadNpcs == ReadNpcsStep(ReadNpcs(file, header, cursor))

\* file.read_chests(), returning r
ReadChestsAtStep(r) ==
    /\ cursor' = r.pos
    /\ got' = Got("read_chests", r, got.info)
    /\ ReadUnchanged

DoReadChestsAt == ReadChestsAtStep(ReadChestsAt(file, header, cursor))

\* file.read_chest_types(&basic_info), returning r
ReadChestTypesStep(r) ==
    /\ cursor' = r.pos
    /\ got' = Got("read_chest_types", r, got.info)
    /\ ReadUnchanged

DoReadChestTypes ==
    /\ got.info.ok
    /\ ReadChestTypesStep(ReadChestTypes(file, header, cursor, got.info.val))

\* file.corruption_percent(), its tile pass being t
CorruptionPercentStep(t) ==
    /\ cursor' = t.pos
    /\ got' = Got("corruption_percent", t, got.info)
    /\ ReadUnchanged

DoCorruptionPercent == CorruptionPercentStep(CorruptionPercent(file, header, cursor))

\* The names a caller could give the first NPC: the two of its own length, one
\* a byte longer
Renamed(name) ==
    {name, [k \in 1..Len(name) |-> 66], Append(name, 66)}

\* The lists a caller could hand to write_npcs after read_npcs returned npcs: the
\* list with the first NPC moved and renamed, without its last NPC, or with one more
NpcEdits(npcs) ==
    {npcs, npcs \o <<NoNpc>>}
      \cup (IF npcs = <<>> THEN {}
            ELSE {SubSeq(npcs, 1, Len(npcs) - 1)}
                   \cup {[npcs EXCEPT ![1].name = n, ![1].x = F32EightAndHalf,
                                      ![1].homeless = TRUE] : n \in Renamed(npcs[1].name)})

\* What write_npcs returned (w), with the file as it was (old), the list read_npcs
\* had returned (read), the list written (npcs) and whether write_npcs was called
Written(w, old, read, npcs, wrote) ==
    [result |-> w.result, pos |-> w.pos, old |-> old, read |-> read, npcs |-> npcs,
     wrote |-> wrote]

\* file.write_npcs(&npcs), returning w
WriteNpcsStep(npcs, w) ==
    /\ file' = w.file
    /\ cursor' = w.pos
    /\ nWrites' = nWrites + 1
    /\ got' = Got("write_npcs", Written(w, file, got.res.val, npcs, TRUE), got.info)
    /\ UNCHANGED <<header, chests, nPlaced, last, codec, world>>

\* One write in a session, of a list made from the one read_npcs just returned
DoWriteNpcs ==
    /\ nWrites = 0
    /\ got.op = "read_npcs"
    /\ got.res.ok
    /\ \E npcs \in NpcEdits(got.res.val) :
           WriteNpcsStep(npcs, WriteNpcs(file, header, cursor, npcs))

\* fix_npcs on the file, returning r after WorldFile::open returned o
FixNpcsStep(o, r) ==
    /\ file' = r.file
    /\ cursor' = r.pos
    /\ nWrites' = nWrites + 1
    /\ got' = Got("fix_npcs", Written(r, file, r.read, r.npcs, r.wrote), NoInfo)
    /\ UNCHANGED <<header, chests, nPlaced, last, codec, world>>

FixNpcsOpened(o) == FixNpcsStep(o, FixNpcs(file, o.val, o.pos))

DoFixNpcs ==
    /\ nWrites = 0
    /\ got.op = "open"
    /\ FixNpcsOpened(ReadOffsets(file))

SessionNext ==
    \/ DoReadBasicInfo
    \/ DoReadNpcs
    \/ DoReadChestsAt
    \/ DoReadChestTypes
    \/ DoCorruptionPercent
    \/ DoWriteNpcs
    \/ DoFixNpcs

SessionSpec == SessionInit /\ [][SessionNext]_vars

(***************************************************************************)
(* Strings to read: a length prefix of up to MaxPrefix bytes before a body *)
(* of 300 bytes (PrefixSpec).                                              *)
(***************************************************************************)
ContinuationBytes == {128, 129, 130, 255}
FinalBytes == {0, 1, 2, 127}

\* The prefixes of n bytes: n - 1 bytes with the high bit, then one without
RECURSIVE PrefixesOf(_)
PrefixesOf(n) ==
    IF n = 1 THEN {<<b>> : b \in FinalBytes}
    ELSE {<<c>> \o rest : c \in ContinuationBytes, rest \in PrefixesOf(n - 1)}

Prefixes == UNION {PrefixesOf(n) : n \in 1..MaxPrefix}

StringBody == [k \in 1..300 |-> 65 + (k % 26)]

PrefixInit ==
    /\ world \in {[kind |-> "string", prefix |-> p] : p \in Prefixes}
    /\ file = world.prefix \o StringBody
    /\ cursor = 0
    /\ header = NoHeader
    /\ chests = <<>>
    /\ nPlaced = 0
    /\ nWrites = 0
    /\ last = MkLast("none", "ok", NoFailure, NoOld, FALSE, <<>>, <<>>, 0)
    /\ codec = CodecIdle
    /\ got = NoResult

PrefixRead(op, r) ==
    /\ cursor' = r.pos
    /\ got' = [op |-> op, res |-> r]
    /\ UNCHANGED <<file, header, chests, nPlaced, nWrites, last, codec, world>>

\* read_string_len(f) with the cursor at the start of the file
DoReadStringLen == got.op # "read_string_len" /\ PrefixRead("read_string_len", ReadStringLen(file, 0))

\* read_string(f) with the cursor at the start of the file
DoReadString == got.op # "read_string" /\ PrefixRead("read_string", ReadString(file, 0))

PrefixNext == DoReadStringLen \/ DoReadString

PrefixSpec == PrefixInit /\ [][PrefixNext]_vars

(***************************************************************************)
(* Single tile records to read, every optional field present or absent     *)
(* (RecordSpec).                                                           *)
(***************************************************************************)
RecordShapes ==
    [kind : {"record"}, not_air : BOOLEAN, id : {1, TILE_CHEST}, has_wall : BOOLEAN,
     liquid : BOOLEAN, rle_on : BOOLEAN, tile_painted : BOOLEAN,
     wall_painted : BOOLEAN, wall_high : BOOLEAN]

\* The flag bytes of the shape w, then the bytes its fields are read from
RecordBytes(w) ==
    LET flags3 == w.tile_painted \/ w.wall_painted \/ w.wall_high
    IN  <<Bit(flags3, 0) + Bit(w.not_air, 1) + Bit(w.has_wall, 2) + Bit(w.liquid, 3)
            + Bit(w.rle_on, 6)>>
          \o (IF flags3
              THEN <<1, Bit(w.tile_painted, 3) + Bit(w.wall_painted, 4)
                          + Bit(w.wall_high, 6)>>
              ELSE <<>>)
          \o <<w.id, 0, 3, 0, 4, 0, 5, 6, 7, 8, 9, 10>>

RecordInit ==
    /\ world \in RecordShapes
    /\ file = RecordBytes(world)
    /\ cursor = 0
    /\ header = NoHeader
    /\ chests = <<>>
    /\ nPlaced = 0
    /\ nWrites = 0
    /\ last = MkLast("none", "ok", NoFailure, NoOld, FALSE, <<>>, <<>>, 0)
    /\ codec = CodecIdle
    /\ got = NoResult

\* One turn of the loop of read_tiles with the cursor at the start of the file
DoReadTileRecord ==
    /\ got.op = "none"
    /\ LET rec == ReadTileRecord(file, 0, TileFrameImportant)
       IN  /\ cursor' = rec.pos
           /\ got' = [op |-> "read_tile_record", res |-> rec]
    /\ UNCHANGED <<file, header, chests, nPlaced, nWrites, last, codec, world>>

RecordNext == DoReadTileRecord

RecordSpec == RecordInit /\ [][RecordNext]_vars

(***************************************************************************)
(* The world viewer (wldmanip): the main loop, the worker threads that     *)
(* load tiles and the channel between them (ViewerSpec).  A world is       *)
(* named by the path it was opened from, 1..MaxPaths; 0 stands for None.   *)
(* A worker is the path of the world whose header and file it was given,   *)
(* a result in the channel the path of the world it was computed from.     *)
(***************************************************************************)
Paths == 1..MaxPaths

Viewer(world_base, map_tex, tiles, loading_tiles, workers, channel) ==
    [kind |-> "viewer", world_base |-> world_base, map_tex |-> map_tex,
     tiles |-> tiles, loading_tiles |-> loading_tiles, workers |-> workers,
     channel |-> channel]

\* main before its loop: load_world(most_recent) when configured, no texture, no
\* tiles, an empty channel
ViewerInit ==
    /\ world \in {Viewer(p, 0, 0, FALSE, <<>>, <<>>) : p \in {0} \cup Paths}
    /\ file = <<>>
    /\ cursor = 0
    /\ header = NoHeader
    /\ chests = <<>>
    /\ nPlaced = 0
    /\ nWrites = 0
    /\ last = MkLast("none", "ok", NoFailure, NoOld, FALSE, <<>>, <<>>, 0)
    /\ codec = CodecIdle
    /\ got = NoResult

\* The first part of an iteration: with a world and no texture, try_recv; a
\* result received becomes the tiles and the texture
CanReceive(v) == v.world_base # 0 /\ v.map_tex = 0 /\ v.channel # <<>>

Received(v) ==
    IF CanReceive(v)
    THEN Viewer(v.world_base, Head(v.channel), Head(v.channel), FALSE, v.workers,
                Tail(v.channel))
    ELSE v

\* load_world(path, &mut world_base) where open succeeds
LoadWorld(v, p) ==
    Viewer(p, v.map_tex, v.tiles, v.loading_tiles, v.workers, v.channel)

\* The "Load tiles" button: a thread is spawned with clones of the world's header
\* and file
CanLoadTiles(v) == v.world_base # 0 /\ ~v.loading_tiles

LoadTilesClicked(v) ==
    Viewer(v.world_base, v.map_tex, v.tiles, TRUE, Append(v.workers, v.world_base),
           v.channel)

\* An iteration of the loop of main that ends in the viewer state v
Frame(v) ==
    /\ world' = v
    /\ got' = IF CanReceive(world)
              THEN [op |-> "install", from |-> Head(world.channel),
                    current |-> world.world_base]
              ELSE got
    /\ UNCHANGED <<file, cursor, header, chests, nPlaced, nWrites, last, codec>>

\* An iteration without a click
FrameIdle == Frame(Received(world))

\* An iteration in which File > Open or a recent file is clicked and opens
FrameOpen == \E p \in Paths : Frame(LoadWorld(Received(world), p))

\* An iteration in which "Load tiles" is clicked
FrameLoadTiles ==
    /\ CanLoadTiles(Received(world))
    /\ Frame(LoadTilesClicked(Received(world)))

Without(seq, k) == SubSeq(seq, 1, k - 1) \o SubSeq(seq, k + 1, Len(seq))

\* A worker returns from load_tiles and sends its result
WorkerSend ==
    /\ \E k \in 1..Len(world.workers) :
          world' = Viewer(world.world_base, world.map_tex, world.tiles,
                          world.loading_tiles, Without(world.workers, k),
                          Append(world.channel, world.workers[k]))
    /\ UNCHANGED <<file, cursor, header, chests, nPlaced, nWrites, last, codec, got>>

\* A worker panics in load_tiles (the unwrap or the assert_eq) and sends nothing
WorkerPanic ==
    /\ \E k \in 1..Len(world.workers) :
          world' = Viewer(world.world_base, world.map_tex, world.tiles,
                          world.loading_tiles, Without(world.workers, k),
                          world.channel)
    /\ UNCHANGED <<file, cursor, header, chests, nPlaced, nWrites, last, codec, got>>

ViewerNext == FrameIdle \/ FrameOpen \/ FrameLoadTiles \/ WorkerSend \/ WorkerPanic

ViewerSpec == ViewerInit /\ [][ViewerNext]_vars

\* The loop of main keeps iterating and a running worker returns or panics
ViewerFairSpec ==
    ViewerSpec /\ WF_vars(FrameIdle) /\ WF_vars(WorkerSend \/ WorkerPanic)

(***************************************************************************)
(* The requirements file (req_file.rs): Requirement::parse.  A string is   *)
(* the sequence of its characters.  The tables of item names, chest type   *)
(* names and prefix names are data outside the parser; they hold the       *)
(* names the tests of the parser use and one prefix.                       *)
(***************************************************************************)
Lower == <<"a", "b", "c", "d", "e", "f", "g", "h", "i", "j", "k", "l", "m", "n", "o", "p",
        "q", "r", "s", "t", "u", "v", "w", "x", "y", "z">>
Upper == <<"A", "B", "C", "D", "E", "F", "G", "H", "I", "J", "K", "L", "M", "N", "O", "P",
        "Q", "R", "S", "T", "U", "V", "W", "X", "Y", "Z">>
DigitChars == <<"0", "1", "2", "3", "4", "5", "6", "7", "8", "9">>
Whitespace == {" ", "\t"}

\* char::is_alphabetic
IsAlphabetic(c) == \E k \in 1..26 : c = Lower[k] \/ c = Upper[k]

\* str::to_lowercase
ToLowercase(s) ==
    [k \in 1..Len(s) |->
        IF \E j \in 1..26 : s[k] = Upper[j]
        THEN Lower[CHOOSE j \in 1..26 : s[k] = Upper[j]]
        ELSE s[k]]

RECURSIVE TrimStart(_)
TrimStart(s) ==
    IF s # <<>> /\ Head(s) \in Whitespace THEN TrimStart(Tail(s)) ELSE s

RECURSIVE TrimEnd(_)
TrimEnd(s) ==
    IF s # <<>> /\ s[Len(s)] \in Whitespace THEN TrimEnd(SubSeq(s, 1, Len(s) - 1))
    ELSE s

\* str::trim
Trim(s) == TrimEnd(TrimStart(s))

\* str::find(c): the index of the first c in s, from 0; -1 for None
Find(s, c) ==
    IF \E k \in 1..Len(s) : s[k] = c
    THEN (CHOOSE k \in 1..Len(s) : s[k] = c /\ \A j \in 1..(k - 1) : s[j] # c) - 1
    ELSE -1

\* str::split(c)
RECURSIVE Split(_, _)
Split(s, c) ==
    IF Find(s, c) < 0 THEN <<s>>
    ELSE <<SubSeq(s, 1, Find(s, c))>> \o Split(SubSeq(s, Find(s, c) + 2, Len(s)), c)

RECURSIVE DigitsValue(_)
DigitsValue(s) ==
    IF s = <<>> THEN 0
    ELSE 10 * DigitsValue(SubSeq(s, 1, Len(s) - 1))
           + ((CHOOSE d \in 1..10 : DigitChars[d] = s[Len(s)]) - 1)

\* str::parse::<u16>: an optional "+", then digits, at most 65535
ParseU16(s) ==
    LET digits == IF s # <<>> /\ Head(s) = "+" THEN Tail(s) ELSE s
    IN  IF \/ digits = <<>>
           \/ Len(digits) > 6
           \/ \E k \in 1..Len(digits) : \A d \in 1..10 : DigitChars[d] # digits[k]
        THEN [ok |-> FALSE, val |-> 0]
        ELSE IF DigitsValue(digits) > 65535 THEN [ok |-> FALSE, val |-> 0]
        ELSE [ok |-> TRUE, val |-> DigitsValue(digits)]

ItemNames == {[name |-> <<"s", "a", "n", "d", "s", "t", "o", "r", "m", " ", "i", "n", " ",
        "a", " ", "b", "o", "t", "t", "l", "e">>, id |-> 857]}
ChestTypeNames ==
    {[name |-> <<"g", "o", "l", "d">>, type |-> "Gold"],
     [name |-> <<"l", "o", "c", "k", "e", "d", " ", "s", "h", "a", "d", "o",
             "w">>, type |-> "LockedShadow"]}
PrefixNames == {[name |-> <<"L", "e", "g", "e", "n", "d", "a", "r", "y">>, id |-> 81]}

\* A look-up in a table of names: <<>> for None
Lookup(table, name) ==
    IF \E e \in table : e.name = name
    THEN <<CHOOSE e \in table : e.name = name>>
    ELSE <<>>

\* ItemIdMap::id_by_name
IdByName(name) == Lookup(ItemNames, ToLowercase(name))

\* ChestType::from_str
ChestTypeFromStr(name) == Lookup(ChestTypeNames, name)

\* prefix_names::id_by_name
PrefixIdByName(name) == Lookup(PrefixNames, name)

ParseError(msg) == [ok |-> FALSE, err |-> msg]

\* parse_only_in over the names from the k-th on
RECURSIVE ParseOnlyInFrom(_, _, _)
ParseOnlyInFrom(names, k, only_in) ==
    IF k > Len(names) THEN [ok |-> TRUE, kind |-> "OnlyIn", val |-> only_in]
    ELSE IF ChestTypeFromStr(Trim(names[k])) = <<>>
    THEN ParseError("Invalid chest type")
    ELSE ParseOnlyInFrom(names, k + 1,
                         Append(only_in, ChestTypeFromStr(Trim(names[k]))[1].type))

ParseOnlyIn(seg) == ParseOnlyInFrom(Split(seg, "/"), 1, <<>>)

StackRangeOf(min, max) ==
    IF ~min.ok \/ ~max.ok THEN ParseError("ParseIntError")
    ELSE [ok |-> TRUE, kind |-> "StackRange", val |-> <<min.val, max.val>>]

ParseNStacksOrStackRange(untrimmed) ==
    LET seg == Trim(untrimmed)
        hyphen == Find(seg, "-")
    IN  IF hyphen < 0
        THEN IF ParseU16(seg).ok
             THEN [ok |-> TRUE, kind |-> "NStacks", val |-> ParseU16(seg).val]
             ELSE ParseError("ParseIntError")
        ELSE StackRangeOf(ParseU16(Trim(SubSeq(seg, 1, hyphen))),
                          ParseU16(Trim(SubSeq(seg, hyphen + 2, Len(seg)))))

ParseSegment(seg) ==
    IF seg # <<>> /\ IsAlphabetic(Head(seg)) THEN ParseOnlyIn(seg)
    ELSE ParseNStacksOrStackRange(seg)

\* What parse has taken from the segments so far; an Option is <<>> or <<value>>
NoSegments == [ok |-> TRUE, err |-> "none", n_stacks |-> <<>>, stack_range |-> <<>>,
               only_in |-> <<>>]

SegmentsError(msg) == [NoSegments EXCEPT !.ok = FALSE, !.err = msg]

\* A variant of the match on a parsed segment in which a later segment replaces
\* an earlier one of its kind
TakeSegmentLastWins(acc, seg) ==
    IF ~seg.ok THEN SegmentsError(seg.err)
    ELSE IF seg.kind = "NStacks" THEN [acc EXCEPT !.n_stacks = <<seg.val>>]
    ELSE IF seg.kind = "StackRange" THEN [acc EXCEPT !.stack_range = <<seg.val>>]
    ELSE [acc EXCEPT !.only_in = <<seg.val>>]

\* The match on a parsed segment in the loop of parse
TakeSegment(acc, seg) ==
    IF ~seg.ok THEN SegmentsError(seg.err)
    ELSE IF seg.kind = "NStacks"
    THEN IF acc.n_stacks = <<>> THEN [acc EXCEPT !.n_stacks = <<seg.val>>]
         ELSE SegmentsError("Duplicate n-stacks segment")
    ELSE IF seg.kind = "StackRange"
    THEN IF acc.stack_range = <<>> THEN [acc EXCEPT !.stack_range = <<seg.val>>]
         ELSE SegmentsError("Duplicate stack range segment")
    ELSE IF acc.only_in = <<>> THEN [acc EXCEPT !.only_in = <<seg.val>>]
         ELSE SegmentsError("Duplicate only-in segment")

\* The loop of parse over the segments from the k-th on
RECURSIVE TakeSegments(_, _, _)
TakeSegments(segments, k, acc) ==
    IF ~acc.ok \/ k > Len(segments) THEN acc
    ELSE IF Trim(segments[k]) = <<>> THEN TakeSegments(segments, k + 1, acc)
    ELSE TakeSegments(segments, k + 1, TakeSegment(acc, ParseSegment(Trim(segments[k]))))

MkRequirement(id, n_stacks, min_per_stack, max_per_stack, only_in, prefix_id) ==
    [ok |-> TRUE, err |-> "none", id |-> id, n_stacks |-> n_stacks,
     min_per_stack |-> min_per_stack, max_per_stack |-> max_per_stack,
     only_in |-> only_in, prefix_id |-> prefix_id]

RequirementError(msg) ==
    [MkRequirement(0, 0, 0, 0, <<>>, 0) EXCEPT !.ok = FALSE, !.err = msg]

\* parse after the prefix: the segments after the colon, then the name before it
ParseFromName(from_name, prefix_id) ==
    LET colon == Find(from_name, ":")
        taken == IF colon < 0 THEN NoSegments
                 ELSE TakeSegments(Split(SubSeq(from_name, colon + 2, Len(from_name)),
                                         ","), 1, NoSegments)
        end_of_name == IF colon < 0 THEN Len(from_name) ELSE colon
        id == IdByName(SubSeq(from_name, 1, end_of_name))
        range == IF taken.stack_range = <<>> THEN <<1, 1>> ELSE taken.stack_range[1]
    IN  IF ~taken.ok THEN RequirementError(taken.err)
        ELSE IF id = <<>> THEN RequirementError("No matching id")
        ELSE MkRequirement(id[1].id,
                           IF taken.n_stacks = <<>> THEN 1 ELSE taken.n_stacks[1],
                           range[1], range[2],
                           IF taken.only_in = <<>> THEN <<>> ELSE taken.only_in[1],
                           prefix_id)

\* Requirement::parse(line, id_map)
RequirementParse(line) ==
    IF line # <<>> /\ Head(line) = "*"
    THEN LET first_space == Find(line, " ")
             prefix == PrefixIdByName(SubSeq(line, 2, first_space))
         IN  IF first_space < 0 THEN RequirementError("Expected space after *Prefix")
             ELSE IF prefix = <<>> THEN RequirementError("Invalid prefix")
             ELSE ParseFromName(SubSeq(line, first_space + 2, Len(line)), prefix[1].id)
    ELSE ParseFromName(line, 0)

(***************************************************************************)
(* Lines to parse: an optional prefix, an item name and up to MaxSegments  *)
(* segments in any order, each with or without a space before it           *)
(* (RequirementSpec).                                                      *)
(***************************************************************************)
SegmentPool ==
    <<[text |-> <<"2">>, kind |-> "NStacks", val |-> 2],
      [text |-> <<"1", "2">>, kind |-> "NStacks", val |-> 12],
      [text |-> <<"3", "-", "7">>, kind |-> "StackRange", val |-> <<3, 7>>],
      [text |-> <<"g", "o", "l", "d", "/", "l", "o", "c", "k", "e", "d", " ", "s", "h", "a",
              "d", "o", "w">>, kind |-> "OnlyIn", val |-> <<"Gold", "LockedShadow">>],
      [text |-> <<"l", "o", "c", "k", "e", "d", " ", "s", "h", "a", "d", "o", "w", " ", "/",
              " ", "g", "o", "l", "d">>, kind |-> "OnlyIn", val |-> <<"LockedShadow", "Gold">>],
      [text |-> <<>>, kind |-> "Empty", val |-> 0],
      [text |-> <<"b", "o", "g", "u", "s">>, kind |-> "Invalid", val |-> 0]>>

LinePrefixes ==
    [none |-> <<>>, known |-> <<"*", "L", "e", "g", "e", "n", "d", "a", "r", "y",
            " ">>, unknown |-> <<"*", "S", "h", "i", "n", "y", " ">>]

LineNames == [known |-> <<"S", "a", "n", "d", "s", "t", "o", "r", "m", " ", "i", "n", " ",
        "a", " ", "b", "o", "t", "t", "l", "e">>, unknown |-> <<"S", "a", "n", "d", "s", "t",
                "o", "r", "m", " ", "i", "n", " ", "a", " ", "j", "a", "r">>]

RECURSIVE SegmentLists(_)
SegmentLists(n) ==
    IF n = 0 THEN {<<>>}
    ELSE SegmentLists(n - 1)
           \cup {Append(l, k) : l \in {s \in SegmentLists(n - 1) : Len(s) = n - 1},
                                k \in 1..Len(SegmentPool)}

Lines ==
    [kind : {"line"}, prefix : {"none", "known", "unknown"}, name : {"known", "unknown"},
     segs : SegmentLists(MaxSegments), pad : BOOLEAN]

RECURSIVE SegmentsText(_, _, _)
SegmentsText(segs, k, pad) ==
    IF k > Len(segs) THEN <<>>
    ELSE (IF k > 1 THEN <<",">> ELSE <<>>)
           \o (IF pad THEN <<" ">> ELSE <<>>)
           \o SegmentPool[segs[k]].text
           \o SegmentsText(segs, k + 1, pad)

\* The text of the line l
LineText(l) ==
    LinePrefixes[l.prefix] \o LineNames[l.name]
      \o (IF l.segs = <<>> THEN <<>> ELSE <<":">> \o SegmentsText(l.segs, 1, l.pad))

RequirementInit ==
    /\ world \in Lines
    /\ file = LineText(world)
    /\ cursor = 0
    /\ header = NoHeader
    /\ chests = <<>>
    /\ nPlaced = 0
    /\ nWrites = 0
    /\ last = MkLast("none", "ok", NoFailure, NoOld, FALSE, <<>>, <<>>, 0)
    /\ codec = CodecIdle
    /\ got = NoResult

\* Requirement::parse(line, &item_ids)
DoParse ==
    /\ got.op = "none"
    /\ got' = [op |-> "parse", res |-> RequirementParse(file)]
    /\ UNCHANGED <<file, cursor, header, chests, nPlaced, nWrites, last, codec, world>>

RequirementNext == DoParse

RequirementSpec == RequirementInit /\ [][RequirementNext]_vars

(***************************************************************************)
(* Opening and reading files that are not what the library supports: a     *)
(* world file with other magic bytes, file-type tag or table length, with  *)
(* another items-per-chest value or chest count, or cut short.             *)
(***************************************************************************)
Relogic == <<114, 101, 108, 111, 103, 105, 99>>

\* "relogic", "Relogic", "relogiC", "relogi" and a zero byte, "xelogic", zeros
StoredMagics ==
    {Relogic, <<82, 101, 108, 111, 103, 105, 99>>, <<114, 101, 108, 111, 103, 105, 67>>,
     <<114, 101, 108, 111, 103, 105, 0>>, <<120, 101, 108, 111, 103, 105, 99>>,
     <<0, 0, 0, 0, 0, 0, 0>>}

StoredFiletypes == {0, 1, 2, 3, 255}

\* 267 and 296 have the low byte of 11 and of 40
StoredPointerCounts == {10, 11, 12, -1, 267}
StoredItemsPerChest == {40, 0, 41, -40, 296}

\* A file as it is stored: the chest list its chest section was written from, the
\* fields stored in place of the written ones, and the length it is cut to
FormatWorld(cs, magic, filetype, n_pointers, items, count, cut) ==
    [kind |-> "format", chests |-> cs, magic |-> magic, filetype |-> filetype,
     n_pointers |-> n_pointers, items_per_chest |-> items, n_chests |-> count,
     cut |-> cut]

FullLength(cs) == Len(BuildFile(cs, FALSE))

FormatWorlds ==
    {FormatWorld(<<ChestA>>, m, t, n, ITEMS_PER_CHEST, 1, FullLength(<<ChestA>>)) :
        m \in StoredMagics, t \in StoredFiletypes, n \in StoredPointerCounts}
    \cup {FormatWorld(cs, Relogic, 2, 11, k, c, FullLength(cs)) :
            cs \in ChestLists, k \in StoredItemsPerChest,
            c \in {0, 1, MaxChests, MaxChests + 1, -1}}
    \cup {FormatWorld(<<ChestA>>, m, 2, 11, ITEMS_PER_CHEST, 1, cut) :
            m \in {Relogic, <<0, 0, 0, 0, 0, 0, 0>>},
            cut \in {0, 3, 4, 10, 11, 12, 25, 26, 69, 72, 73, 76, 78, 79, 100,
                     FullLength(<<ChestA>>) - 1}}

\* The bytes of the file w describes
FormatPatched(w, f, chs) ==
    SubSeq(WriteAt(WriteAt(WriteAt(WriteAt(f, 4, w.magic), 11, <<w.filetype>>),
                           24, LE16(w.n_pointers)),
                   chs, LE16(w.n_chests) \o LE16(w.items_per_chest)),
           1, w.cut)

FormatFile(w) ==
    FormatPatched(w, BuildFile(w.chests, FALSE),
                  ReadOffsets(BuildFile(w.chests, FALSE)).val.chests)

FormatInit ==
    /\ world \in FormatWorlds
    /\ file = FormatFile(world)
    /\ cursor = 0
    /\ header = NoHeader
    /\ chests = <<>>
    /\ nPlaced = 0
    /\ nWrites = 0
    /\ last = MkLast("none", "ok", NoFailure, NoOld, FALSE, <<>>, <<>>, 0)
    /\ codec = CodecIdle
    /\ got = NoResult

\* WorldFile::open(path, false)
FormatOpen == last.op = "none" /\ OpenStep(ReadOffsets(file))

\* file.read_chests() on the session open returned
FormatReadChests == last.op = "open" /\ DoReadChests

FormatNext == FormatOpen \/ FormatReadChests

FormatSpec == FormatInit /\ [][FormatNext]_vars


(***************************************************************************)
(* Properties of write_chests (Spec).                                      *)
(***************************************************************************)
\* The last operation was a write_chests that returned Ok
WroteOk == last.op = "write_chests" /\ last.result = "ok"

\* What followed the chest section in the file write_chests was called on
OldTail ==
    SubSeq(last.old.file, Min(last.old.header.signs, Len(last.old.file)) + 1,
           Len(last.old.file))

\* Whether the bytes are in f at offset off
BytesAt(f, off, bytes) ==
    off >= 0 /\ off + Len(bytes) <= Len(f)
      /\ SubSeq(f, off + 1, off + Len(bytes)) = bytes

\* The chest list as a reader of the file format sees it: a slot of stack 0 is
\* the default item
Normalised(chest) ==
    [chest EXCEPT !.items = [i \in 1..Len(chest.items) |->
                               IF chest.items[i].stack = 0 THEN DefaultItem
                               ELSE chest.items[i]]]

NormalisedList(cs) == [i \in 1..Len(cs) |-> Normalised(cs[i])]

\* The chest list is r, the result of a read_chests
ReadsBackAs(r, cs) == r.ok /\ r.val = cs

StoredEntry(f, k) == I32At(f, OFFSET_TABLE_OFFSET + 4 * k)

\* C2 as stated: after a write that changes the length of the chest section by
\* delta, every stored table entry whose old value was at or after the old signs
\* offset has grown by delta, and every entry whose old value was before it is
\* unchanged.
C2_EntriesShiftByValue ==
    WroteOk =>
        \A k \in 0..(N_POINTERS - 1) :
            StoredEntry(file, k) =
                StoredEntry(last.old.file, k)
                  + (IF StoredEntry(last.old.file, k) >= last.old.header.signs
                     THEN last.new_signs - last.old.header.signs ELSE 0)

\* C3: after a successful write_chests, the bytes that followed the chest section
\* are in the file unchanged, starting at the new signs offset, which is the end
\* of the new chest section.
C3_TailPreserved ==
    WroteOk =>
        /\ header.signs = last.old.header.chests + Len(WriteChestsInner(chests).bytes)
        /\ StoredEntry(file, 3) = header.signs
        /\ BytesAt(file, header.signs, OldTail)

\* C3's case: the section has shrunk, so the tail has moved down over bytes of
\* the old chest section
C3_Witness ==
    /\ WroteOk
    /\ header.signs < last.old.header.signs
    /\ Len(OldTail) > last.old.header.signs - header.signs

\* C4 as stated: after a write that makes the chest section smaller, the file
\* ends where the rewritten tail ends.
C4_FileEndsAfterTail ==
    (WroteOk /\ last.new_signs < last.old.header.signs) =>
        Len(file) = last.new_signs + Len(OldTail)

\* C5: after any sequence of successful operations, the ten offsets stored at
\* 0x1A, read as open reads them, are the ten offsets of the in-memory header.
C5_TableIsHeader ==
    Alive => ReadOffsets(file).ok /\ ReadOffsets(file).val = header

\* C5's case: a second successful write has moved the offsets again
C5_Witness ==
    /\ WroteOk
    /\ nWrites = 2
    /\ header.signs # last.old.header.signs
    /\ last.old.header.signs # ReadOffsets(BuildFile(<<ChestA>>, TRUE)).val.signs

\* The stored table describes the file: the chest section it points at parses
\* and ends at the stored signs offset, and each later entry points at its section
TableConsistent(f, t) ==
    /\ t.ok
    /\ ReadChests(f, t.val).ok
    /\ ReadChests(f, t.val).pos = t.val.signs
    /\ BytesAt(f, t.val.signs, SignsSection)
    /\ BytesAt(f, t.val.npcs, NpcsSection)
    /\ BytesAt(f, t.val.entities, EntitiesSection)
    /\ BytesAt(f, t.val.footer, FooterSection)

\* C6 as stated: a write_chests that fails at any step leaves a file whose offset
\* table is consistent with its sections.
C6_FailureKeepsTable ==
    (last.op = "write_chests" /\ last.result = "io") =>
        TableConsistent(file, ReadOffsets(file))

\* C7: the tail is read before the first write: a write_chests that fails in the
\* seek to the signs offset or in the read of the tail returns the error and
\* leaves the file and the in-memory offsets as they were.
C7_FailedTailReadChangesNothing ==
    (last.op = "write_chests" /\ last.fail.step \in {"seek_signs", "read_tail"}) =>
        /\ last.result = "io"
        /\ file = last.old.file
        /\ header = last.old.header

\* C7's case: the read of the tail failed part of the way, for a list that would
\* have changed the section
C7_Witness ==
    /\ last.op = "write_chests"
    /\ last.fail.step = "read_tail"
    /\ last.fail.cut > 0
    /\ ReadChests(file, header).val # NormalisedList(chests)

(***************************************************************************)
(* Properties of the record codecs (CodecSpec).                            *)
(***************************************************************************)
\* C8 as stated: for a chest with a name shorter than 127 bytes, Chest::read on
\* the bytes of Chest::write returns a chest equal to it in x, y, name and all
\* slots, those of stack 0 included.
C8_ChestReadsBackEqual ==
    (codec.kind = "chest" /\ codec.stage = "read") =>
        codec.ok /\ codec.rchest = codec.chest

\* C8 amended: for a chest with a name shorter than 127 bytes, Chest::read on the
\* bytes of Chest::write consumes those bytes and returns a chest equal to it in
\* x, y, name and every slot of non-zero stack, with the default item in every
\* slot of stack 0.
C8_ChestReadsBackNormalised ==
    /\ (codec.kind = "chest" /\ codec.stage = "written") =>
           (codec.panic <=> Len(codec.chest.name) >= STRING_LEN_LIMIT)
    /\ (codec.kind = "chest" /\ codec.stage = "read") =>
           /\ codec.ok
           /\ codec.used = Len(codec.bytes)
           /\ codec.rchest = Normalised(codec.chest)

\* C8's case: a chest with a slot of stack 0 that carries an id has been written
\* and read back
C8_Witness ==
    /\ codec.kind = "chest" /\ codec.stage = "read"
    /\ \E i \in 1..CHEST_MAX_ITEMS :
         codec.chest.items[i].stack = 0 /\ codec.chest.items[i].id # 0

\* C9: Item::write emits 2 bytes for an item of stack 0, whatever its id and
\* prefix_id, and 7 bytes otherwise; Item::read consumes as many bytes as were
\* written.
C9_ItemLength ==
    /\ (codec.kind = "item" /\ codec.stage \in {"written", "read"}) =>
           Len(codec.bytes) = (IF codec.item.stack = 0 THEN 2 ELSE 7)
    /\ (codec.kind = "item" /\ codec.stage = "read") =>
           codec.ok /\ codec.used = Len(codec.bytes)

\* C9's case: an item of stack 0 with an id and a prefix has been written and
\* read back
C9_Witness ==
    /\ codec.kind = "item" /\ codec.stage = "read"
    /\ codec.item.stack = 0 /\ codec.item.id # 0 /\ codec.item.prefix_id # 0

(***************************************************************************)
(* Properties of bless_chests (BlessSpec).                                 *)
(***************************************************************************)
\* The slots of the list cs, as [chest, slot]
SlotsOf(cs) == {<<i, j>> : i \in 1..Len(cs), j \in 1..CHEST_MAX_ITEMS}

\* The file read again from the start gives the chests of base, with the one item
\* in the slot it was placed in
ReopenedHas(r, base, p) ==
    /\ r.ok
    /\ Len(r.val) = Len(base)
    /\ \A i \in 1..Len(base) :
         /\ r.val[i].x = base[i].x
         /\ r.val[i].y = base[i].y
         /\ r.val[i].name = base[i].name
    /\ \A sl \in SlotsOf(base) :
         r.val[sl[1]].items[sl[2]] =
             (IF sl = <<p.chest, p.slot>> THEN p.item ELSE base[sl[1]].items[sl[2]])

\* The last operation wrote back the list read from the file after exactly one
\* empty slot was given an item of non-zero stack
OneSlotFilled ==
    /\ WroteOk /\ last.fromRead
    /\ Len(last.placed) = 1
    /\ last.placed[1].item.stack # 0

\* C10 as stated: when the list read from the file is written back after exactly
\* one empty slot has been given an item of non-zero stack, the signs offset grows
\* by 7, chest positions are unchanged and the file opened again has the items
\* there were and the new item.
C10_SignsGrowsBySeven ==
    OneSlotFilled =>
        /\ header.signs = last.old.header.signs + 7
        /\ ReadOffsets(file).ok
        /\ ReadOffsets(file).val.signs = last.old.header.signs + 7
        /\ ReopenedHas(ReadChests(file, ReadOffsets(file).val), last.base,
                       last.placed[1])

\* C10 amended: in that case the signs offset, in memory and in the file, and the
\* end of the chest section grow by 5 (the 2 bytes of the empty slot become 7),
\* chest positions are unchanged and the file opened again has the items there
\* were and the new item.
C10_SignsGrowsByFive ==
    OneSlotFilled =>
        /\ header.signs = last.old.header.signs + 5
        /\ ReadOffsets(file).ok
        /\ ReadOffsets(file).val.signs = last.old.header.signs + 5
        /\ ReadChests(file, ReadOffsets(file).val).pos
             = ReadChests(last.old.file, last.old.header).pos + 5
        /\ ReopenedHas(ReadChests(file, ReadOffsets(file).val), last.base,
                       last.placed[1])

\* C10's case: the chest of the example, {stack 5, id 857} in slot 0, has been
\* given {stack 10, id 3} in slot 1 and the list has been written
C10_Witness ==
    /\ WroteOk /\ last.fromRead
    /\ last.base = <<ChestA>>
    /\ last.placed = <<[chest |-> 1, slot |-> 2, item |-> MkItem(10, 3, 0)]>>

(***************************************************************************)
(* Properties of open and read_chests on unsupported files (FormatSpec).   *)
(***************************************************************************)
\* C13: open on a file whose magic bytes are not "relogic" returns a format error
\* (no session is made) and the cursor is left right after the magic, at 11: no
\* byte after the magic was read.
C13_BadMagicStopsAtMagic ==
    (last.op = "open" /\ world.magic # Relogic /\ world.cut >= 11) =>
        /\ last.result = "format"
        /\ cursor = 11
        /\ header = NoHeader

\* C13's case: only the last magic byte differs, and the rest of the file is as
\* open wants it
C13_Witness ==
    /\ last.op = "open"
    /\ world.magic = <<114, 101, 108, 111, 103, 105, 67>>
    /\ world.filetype = 2 /\ world.n_pointers = 11

\* C14: open returns a format error and no session whenever the stored file-type
\* tag is not 2 or the stored table length is not 11; it returns Ok only if magic,
\* tag and table length all match, and does so for a whole file where they do.
C14_OpenChecksTagAndLength ==
    last.op = "open" =>
        /\ ((world.cut >= 12 /\ world.filetype # 2)
              \/ (world.cut >= 26 /\ world.n_pointers # 11)) =>
               (last.result = "format" /\ header = NoHeader)
        /\ last.result = "ok" =>
               (world.magic = Relogic /\ world.filetype = 2 /\ world.n_pointers = 11)
        /\ (world.magic = Relogic /\ world.filetype = 2 /\ world.n_pointers = 11
              /\ world.cut = FullLength(world.chests)) =>
               (last.result = "ok" /\ header = ReadOffsets(file).val)

\* C14's case: magic and tag match and the stored table length, 267, has the low
\* byte of 11
C14_Witness ==
    /\ last.op = "open"
    /\ world.magic = Relogic /\ world.filetype = 2 /\ world.n_pointers = 267

\* Where the chest section of the file starts and where its records end
ChestsStart(w) == ReadOffsets(BuildFile(w.chests, FALSE)).val.chests
ChestsEnd(w) == ReadOffsets(BuildFile(w.chests, FALSE)).val.signs

GridCells(w) == AsU16(w.width) * AsU16(w.height)

\* The stream of w is well formed for its grid: its records cover exactly the
\* cells of the grid, and every tile id is within tile_frame_important
WellFormed(w) ==
    /\ CellsOf(w.records) = GridCells(w)
    /\ \A k \in 1..Len(w.records) : w.records[k].front < 8 * Len(TileFrameImportant)

\* The sum of rle + 1 over the turns of a pass
RECURSIVE CellsRead(_)
CellsRead(turns) ==
    IF turns = <<>> THEN 0 ELSE Head(turns).rle + 1 + CellsRead(Tail(turns))

\* C11: a tile pass over a well-formed stream ends without an error when the sum
\* of (repeat count + 1) over the records it has read equals width * height; it
\* has read every record of the stream and no byte after the stream.
C11_PassCoversGrid ==
    (got.op = "corruption_percent" /\ WellFormed(world))
        => /\ got.res.result = "ok"
           /\ CellsRead(got.res.turns) = GridCells(world)
           /\ got.res.i = GridCells(world)
           /\ Len(got.res.turns) = Len(world.records)
           /\ got.res.pos = header.chests

C11_Witness ==
    /\ got.op = "corruption_percent"
    /\ WellFormed(world)
    /\ Len(got.res.turns) = MaxRecords
    /\ \E k \in 1..Len(got.res.turns) : got.res.turns[k].rle = MaxRun
    /\ \E k \in 1..Len(world.records) : world.records[k].long_rle

\* The invocations of tile_callback a pass made for the cells of one of its turns
CallsOfTurn(t, turn) == {c \in 1..Len(t.calls) : t.calls[c].i \in turn.i..(turn.i + turn.rle)}

\* C12: for every record read with repeat count r, tile_callback is invoked
\* exactly r + 1 times, with the same id and frame offset, once for each of the
\* r + 1 cells of the record.
C12_CallbackPerCell ==
    (got.op = "corruption_percent" /\ got.res.result = "ok")
        => \A k \in 1..Len(got.res.turns) :
               LET turn == got.res.turns[k]
                   cs == CallsOfTurn(got.res, turn)
               IN  /\ Cardinality(cs) = turn.rle + 1
                   /\ \A c, d \in cs :
                          /\ got.res.calls[c].id = got.res.calls[d].id
                          /\ got.res.calls[c].frame = got.res.calls[d].frame
                          /\ (c < d => got.res.calls[c].i < got.res.calls[d].i)

\* The cells of a stream: each record rle + 1 times
RECURSIVE Cells(_)
Cells(recs) ==
    IF recs = <<>> THEN <<>>
    ELSE [k \in 1..(Head(recs).rle + 1) |-> Head(recs)] \o Cells(Tail(recs))

\* The entry the claim gives the cell c (counted from 0) of the grid of height h
\* holding the tile rec; {} for no entry
EntryOfCell(rec, c, h) ==
    IF rec.front = TILE_CHEST /\ rec.fy = 0
    THEN {[x |-> c \div h, y |-> c % h, type |-> FromFrameX(rec.fx)]}
    ELSE IF rec.front = TILE_DRESSER
    THEN {[x |-> c \div h, y |-> c % h, type |-> UnknownDresser(rec.fx)]}
    ELSE {}

EntriesOfCells(cells, h) == UNION {EntryOfCell(cells[c], c - 1, h) : c \in 1..Len(cells)}

\* C20: the chest-type map of a well-formed world holds, for every cell with a
\* chest tile (21) whose frame y is 0, the variant of its frame x, for every cell
\* with a dresser tile (88) UnknownDresser(frame x), and nothing else.
C20_MapOfEveryCell ==
    (got.op = "read_chest_types" /\ WellFormed(world))
        => /\ got.res.result = "ok"
           /\ got.res.map = EntriesOfCells(Cells(world.records), AsU16(world.height))


(***************************************************************************)
(* Properties of the name limit of the writers (CodecSpec).                *)
(***************************************************************************)
\* C16: writing a chest whose name is 127 bytes or longer fails, and no byte of
\* the record (its position included) has been written when it fails.
C16_LongNameWritesNothing ==
    (codec.kind = "chest" /\ codec.stage = "written"
        /\ Len(codec.chest.name) >= STRING_LEN_LIMIT)
        => codec.panic /\ codec.bytes = <<>>

(***************************************************************************)
(* Properties of the NPC list and of the reads of a session (SessionSpec). *)
(***************************************************************************)
\* The Npc read_npc returns for the stored NPC n
DecodedNpc(n) ==
    MkNpc(n.sprite, FromUtf8Lossy(n.name), n.x, n.y, n.homeless # 0, n.home_x, n.home_y)

DecodedNpcs(ns) == [k \in 1..Len(ns) |-> DecodedNpc(ns[k])]

\* C17: on the file as built, read_npcs returns the stored NPCs, all of them and
\* in order, whatever non-zero byte their active flag is, and leaves the cursor
\* right after the zero byte that ends the list.
C17_ReadsUpToTerminator ==
    (got.op = "read_npcs" /\ nWrites = 0)
        => /\ got.res.ok
           /\ got.res.val = DecodedNpcs(world.npcs)
           /\ got.res.pos = header.npcs + Len(EncodeNpcs(world.npcs)) + 1
           /\ file[got.res.pos] = 0

C17_Witness ==
    /\ got.op = "read_npcs"
    /\ nWrites = 0
    /\ Len(got.res.val) = MaxNpcs
    /\ \E k \in 1..Len(world.npcs) : world.npcs[k].active > 1
    /\ file[got.res.pos + 1] # 0

\* Two lists with as many NPCs and names as long
SameShape(a, b) ==
    /\ Len(a) = Len(b)
    /\ \A k \in 1..Len(a) : Len(a[k].name) = Len(b[k].name)

\* The bytes the records of npcs take when written: 23 and the name for each
RECURSIVE SerializedLen(_)
SerializedLen(npcs) ==
    IF npcs = <<>> THEN 0 ELSE 23 + Len(Head(npcs).name) + SerializedLen(Tail(npcs))

\* Every name of npcs is shorter than 127 bytes, and the records of npcs take as
\* many bytes as the records stored in old, which end.pos - 1 bytes precede the
\* end of (end: what read_npcs returns on old)
SameSize(npcs, end) ==
    /\ \A k \in 1..Len(npcs) : Len(npcs[k].name) < STRING_LEN_LIMIT
    /\ end.ok
    /\ SerializedLen(npcs) = end.pos - 1 - header.npcs

\* The file is old but for the NPC records: from header.npcs up to the byte
\* that ended the list in old
OnlyRecordsChanged(old, end) ==
    /\ Len(file) = Len(old)
    /\ SubSeq(file, 1, header.npcs) = SubSeq(old, 1, header.npcs)
    /\ SubSeq(file, end.pos, Len(file)) = SubSeq(old, end.pos, Len(old))
    /\ header = ReadOffsets(file).val

\* write_npcs has just been called (by the caller of read_npcs, or by fix_npcs)
WroteNpcs == got.op \in {"write_npcs", "fix_npcs"} /\ got.res.wrote

ReadsBackNpcs(r, npcs) == r.ok /\ r.val = npcs

SameSizeKeepsFrame(end) ==
    (WroteNpcs /\ SameSize(got.res.npcs, end))
        => /\ got.res.result = "ok"
           /\ OnlyRecordsChanged(got.res.old, end)
           /\ ReadsBackNpcs(ReadNpcs(file, header, cursor), got.res.npcs)

Reread(op, o) ==
    CASE op = "read_basic_info" -> ReadBasicInfo(file, header, o.pos)
      [] op = "read_npcs" -> ReadNpcs(file, header, o.pos)
      [] op = "read_chests" -> ReadChestsAt(file, header, o.pos)
      [] op = "read_chest_types" -> ReadChestTypes(file, header, o.pos, got.info.val)
      [] op = "corruption_percent" -> CorruptionPercent(file, header, o.pos)

ReadOps ==
    {"read_basic_info", "read_npcs", "read_chests", "read_chest_types",
     "corruption_percent"}

\* The BasicInfo of the world w
BasicInfoOf(w) ==
    MkBasicInfo(AsU16(w.height), AsU16(w.width), SurfaceY, FromUtf8Lossy(w.seed),
                w.spawn_x, w.spawn_y)

SameAsAfterOpen ==
    /\ got.op \in ReadOps => got.res = Reread(got.op, ReadOffsets(file))
    /\ got.info.ok => got.info.val = BasicInfoOf(world)

ReadsChangeNothing ==
    [][got'.op \in ReadOps => file' = file /\ header' = header]_vars

\* C19: whatever ran before it on the session, a read returns what it returns
\* right after open (read_basic_info: the values the metadata section stores),
\* and no read changes the file or the offsets of the session.
C19_ReadsRepeatable == []SameAsAfterOpen /\ ReadsChangeNothing

C19_Witness ==
    /\ got.op = "read_chests"
    /\ got.info.ok
    /\ got.res.ok
    /\ got.res.val # <<>>
    /\ cursor # ReadOffsets(file).pos


(***************************************************************************)
(* Further properties of write_chests (Spec).                              *)
(***************************************************************************)
\* C21: after a write_chests that changed the length of the chest section by
\* delta, the three reserved entries and the eleventh entry of the stored table
\* have each changed by delta.
C21_ReservedEntriesShift ==
    WroteOk =>
        \A k \in 7..(N_POINTERS - 1) :
            StoredEntry(file, k) =
                StoredEntry(last.old.file, k) + (last.new_signs - last.old.header.signs)

\* The bytes of f from offset lo up to, not including, offset hi
Bytes(f, lo, hi) == SubSeq(f, lo + 1, hi)

\* C27: whatever write_chests returned, the bytes before the chest section are
\* those of the file it was called on, but for the ten table entries that
\* Header::write writes: the fields before the table, the eleventh entry, the
\* bitmask, the metadata section and the tile section are unchanged.
C27_OnlyTableChangesBeforeChests ==
    last.op = "write_chests" =>
        /\ Bytes(file, 0, Len(BaseHeader)) = Bytes(last.old.file, 0, Len(BaseHeader))
        /\ Bytes(file, Len(BaseHeader) + 40, last.old.header.chests)
             = Bytes(last.old.file, Len(BaseHeader) + 40, last.old.header.chests)
        /\ header.header = last.old.header.header
        /\ header.tiles = last.old.header.tiles
        /\ header.chests = last.old.header.chests

C27_Witness ==
    /\ WroteOk
    /\ nWrites = MaxWrites
    /\ Bytes(file, Len(BaseHeader), Len(BaseHeader) + 40)
         # Bytes(last.old.file, Len(BaseHeader), Len(BaseHeader) + 40)
    /\ header.signs < last.old.header.signs

\* header < tiles < chests < signs < npcs < entities < footer
Ordered(h) ==
    /\ h.header < h.tiles /\ h.tiles < h.chests /\ h.chests < h.signs
    /\ h.signs < h.npcs /\ h.npcs < h.entities /\ h.entities < h.footer

\* The first seven entries of the table stored in f
StoredOffsets(f) ==
    MkHeader(StoredEntry(f, 0), StoredEntry(f, 1), StoredEntry(f, 2), StoredEntry(f, 3),
             StoredEntry(f, 4), StoredEntry(f, 5), StoredEntry(f, 6), 0, 0, 0, <<>>)

\* C28: after a write_chests that returned Ok on a session whose offsets were in
\* the order of the sections, the offsets of the session and those stored in the
\* file are in that order.
C28_OrderPreserved ==
    (WroteOk /\ Ordered(last.old.header))
        => Ordered(header) /\ Ordered(StoredOffsets(file))

C28_Witness ==
    /\ WroteOk
    /\ Ordered(last.old.header)
    /\ nWrites = MaxWrites
    /\ chests = <<>>
    /\ header.signs < last.old.header.signs


(***************************************************************************)
(* Properties of the string length prefix (PrefixSpec).                    *)
(***************************************************************************)
\* The 7-bit-continuation integer of the bytes: the sum of (bk & 0x7F) * 2^(7k)
RECURSIVE SevenBitInteger(_)
SevenBitInteger(bytes) ==
    IF bytes = <<>> THEN 0
    ELSE (Head(bytes) % 128) + 128 * SevenBitInteger(Tail(bytes))

\* C23: read_string_len returns the 7-bit-continuation integer of the prefix and
\* leaves the cursor after it; read_string returns as many bytes as that.
C23_PrefixIsSevenBitInteger ==
    /\ got.op = "read_string_len"
         => /\ got.res.ok
            /\ got.res.val = SevenBitInteger(world.prefix)
            /\ got.res.pos = Len(world.prefix)
    /\ (got.op = "read_string" /\ SevenBitInteger(world.prefix) <= Len(StringBody))
         => got.res.ok /\ Len(got.res.val) = SevenBitInteger(world.prefix)


(***************************************************************************)
(* Properties of one tile record (RecordSpec).                             *)
(***************************************************************************)
N(b) == IF b THEN 1 ELSE 0

\* The bytes of a record of shape w that are neither the tile paint byte nor the
\* high byte of the wall id
PlainLength(w) ==
    1 + 2 * N(w.tile_painted \/ w.wall_painted \/ w.wall_high)
      + N(w.not_air) + 4 * N(w.not_air /\ w.id \in FrameImportantIds)
      + N(w.has_wall) + N(w.has_wall /\ w.wall_painted)
      + N(w.liquid) + N(w.rle_on)

HasWallHigh(w) == w.has_wall /\ w.wall_high

\* C24: a record consumes one tile paint byte if and only if it has a front tile
\* and its painted bit is set (records without the high byte of the wall id).
C24_PaintOnlyWithFront ==
    (got.op = "read_tile_record" /\ ~HasWallHigh(world))
        => got.res.pos = PlainLength(world) + N(world.not_air /\ world.tile_painted)

\* C25: a record with a back wall and flags3 bit 6 set consumes one more byte, the
\* high byte of the wall id (records whose paint byte comes with a front tile).
C25_WallHighByteRead ==
    (got.op = "read_tile_record" /\ HasWallHigh(world)
       /\ (world.tile_painted => world.not_air))
        => got.res.pos = PlainLength(world) + N(world.tile_painted) + 1


(***************************************************************************)
(* Attribution of tiles to cells (SessionSpec).                            *)
(***************************************************************************)
\* The logical cell the k-th record of recs starts at, counting from 0
RECURSIVE FirstCell(_, _)
FirstCell(recs, k) ==
    IF k = 1 THEN 0 ELSE FirstCell(recs, k - 1) + recs[k - 1].rle + 1

\* The records of w that load_chest_types makes an entry for
Reported(w) ==
    {k \in 1..Len(w.records) :
        \/ w.records[k].front = TILE_CHEST /\ w.records[k].fy = 0
        \/ w.records[k].front = TILE_DRESSER}

\* C26: tiles are attributed column by column: the map of read_chest_types has
\* its entries at x = n div height, y = n mod height for the logical cells n the
\* chest and dresser records start at, with x < width and y < height.
C26_ColumnMajor ==
    (got.op = "read_chest_types" /\ got.res.result = "ok" /\ WellFormed(world))
        => /\ {<<e.x, e.y>> : e \in got.res.map}
                = {<<FirstCell(world.records, k) \div world.height,
                     FirstCell(world.records, k) % world.height>> :
                       k \in Reported(world)}
           /\ \A e \in got.res.map : e.x < world.width /\ e.y < world.height

C26_Witness ==
    /\ got.op = "read_chest_types"
    /\ got.res.result = "ok"
    /\ WellFormed(world)
    /\ \E e \in got.res.map : e.x > 0 /\ e.y > 0
    /\ \E e \in got.res.map : e.x # e.y
    /\ \E k \in 1..Len(world.records) : world.records[k].rle > 0


(***************************************************************************)
(* Properties of the world viewer (ViewerSpec, ViewerFairSpec).            *)
(***************************************************************************)
\* C29: a result a worker has sent is eventually received by the main loop (the
\* iteration that receives it installs the tiles and the texture and sets
\* loading_tiles to false): the channel does not stay non-empty.
C29_LoadCompletes == (world.channel # <<>>) ~> (world.channel = <<>>)

InFlight == Len(world.workers) + Len(world.channel)

\* C30: a result is installed only while the world it was computed from is the
\* world that is loaded, and at most one worker is in flight.
C30_InstalledFromCurrentWorld ==
    /\ got.op = "install" => got.from = got.current
    /\ InFlight <= 1


(***************************************************************************)
(* Properties of Requirement::parse (RequirementSpec).                     *)
(***************************************************************************)
\* The segments of the line l of one kind, in the order of the line
OfKind(l, kind) == SelectSeq(l.segs, LAMBDA k : SegmentPool[k].kind = kind)

\* The value of the segment of the line l of one kind, or the default
SegmentOr(l, kind, default) ==
    IF OfKind(l, kind) = <<>> THEN default ELSE SegmentPool[OfKind(l, kind)[1]].val

Named(l) == l.name = "known" /\ l.prefix # "unknown" /\ OfKind(l, "Invalid") = <<>>

\* C22: parse of a line that names an item returns its id with n_stacks, the range
\* per stack and the only-in chest types of the segments of the line, in any
\* order, and the defaults 1, (1, 1), empty and 0 for what the line omits; a second
\* segment of a kind is an error.
C22_ParseTakesSegments ==
    (got.op = "parse" /\ Named(world))
        => IF \E kind \in {"NStacks", "StackRange", "OnlyIn"} :
                  Len(OfKind(world, kind)) > 1
           THEN ~got.res.ok
           ELSE got.res = MkRequirement(857,
                                        SegmentOr(world, "NStacks", 1),
                                        SegmentOr(world, "StackRange", <<1, 1>>)[1],
                                        SegmentOr(world, "StackRange", <<1, 1>>)[2],
                                        SegmentOr(world, "OnlyIn", <<>>),
                                        IF world.prefix = "none" THEN 0 ELSE 81)

C22_Witness ==
    /\ got.op = "parse"
    /\ got.res.ok
    /\ world.prefix = "none"
    /\ world.pad
    /\ Len(world.segs) = MaxSegments
    /\ SegmentPool[world.segs[1]].kind = "StackRange"
    /\ got.res.n_stacks = 12
    /\ got.res.only_in = <<"LockedShadow", "Gold">>

====
